---- MODULE Spec2Model ----
(***************************************************************************)
(* clipboard-watcher: the per-platform observer cycle (change detected,    *)
(* catalog built, gatekeeper consulted, content extracted by priority,     *)
(* result published) for the X11, Win32 and NSPasteboard observers.        *)
(*                                                                         *)
(* A clipboard snapshot is a function from the advertised formats to what  *)
(* the native provider answers when that format is requested.  The native  *)
(* layer (X server, Win32 clipboard, pasteboard) is the environment: its   *)
(* answers are drawn from small sets, the observers' code is translated.   *)
(*                                                                         *)
(* Spec is one observer cycle over every snapshot; LoopSpec is the         *)
(* listener's life: Driver::new and the observer thread, the subscriber    *)
(* streams and their channels, send_all under the registry's mutex, the    *)
(* disposal of streams and of the listener; LiveSpec adds the fairness of  *)
(* the running threads, DisposeLiveSpec that of a thread dropping a stream *)
(* and ConsumeLiveSpec that of the consumers' polls; ObserveSpec is the    *)
(* observer thread of a listener that nobody subscribed to, with its       *)
(* running thread in ObserveLiveSpec; ReadSpec is the X11 selection        *)
(* transfer of read_format_with_size_check against an owner that may       *)
(* answer, refuse, stall or stay silent, and ReadLiveSpec adds the running *)
(* reader and the passing of time; CatalogSpec is the X11 catalog built    *)
(* from the TARGETS of the selection, resolved again and again.            *)
(***************************************************************************)
EXTENDS Integers, Sequences, FiniteSets, TLC

(* ------------------------------ bounds --------------------------------- *)
\* at most this many formats are advertised at once
MaxPresent == 3
\* a file list holds at most this many entries
MaxFiles == 2
\* the configured max_size, when one is configured
SizeLimit == 4
\* by how much an oversized payload exceeds the limit
Excess == 1
\* at most this many custom formats are monitored
MaxCustom == 2
\* at most this many streams are created by new_stream
MaxStreams == 2
\* the buffer argument given to new_stream
Buffer == 1
\* at most this many times the clipboard content changes
MaxChanges == 2
\* an X11 selection owner's payload is at most this many transfer chunks
MaxChunks == 2
\* the size of one transfer chunk, in bytes
ChunkBytes == 3
\* at most this many events of other clients' making reach the connection
MaxNoise == 1
\* at most this many selection reads are made on one connection
MaxCalls == 2
\* an X11 owner advertises at most this many targets
MaxTargets == 3
\* the catalog of one clipboard content is built at most this many times
MaxRuns == 2

(* --------------------------- program constants ------------------------- *)
\* an INCR marker property holds one 32-bit integer: get_property_size sees 4
IncrMarkerBytes == 4

(* ------------------------------ formats -------------------------------- *)
Platforms == {"linux", "win", "macos"}
CustomNames == {"A", "B"}
\* Option<u32> as a set: {} is None, {n} is Some(n)
NoLimit == {}
NoPath == "nopath"
NoBody == [tag |-> "none"]

\* the formats a snapshot may advertise, per platform
Keys(p) ==
  CASE p = "linux" -> {"A", "B", "PNG", "FILES", "HTML", "TEXT", "LENGTH"}
    [] p = "win"   -> {"A", "B", "PNG", "DIBV5", "DIB", "FILES", "HTML", "TEXT"}
    [] p = "macos" -> {"A", "B", "PNG", "TIFF", "FILES", "HTML", "TEXT"}

ByteKeys == {"A", "B", "PNG", "DIBV5", "DIB", "TIFF"}
RawKeys == {"DIBV5", "DIB", "TIFF"}
StrKeys == {"HTML", "TEXT"}

\* what the provider answers for a format
Unreadable == [t |-> "unreadable"]
Bytes(n) == [t |-> "bytes", size |-> n]
Corrupt(n) == [t |-> "corrupt", size |-> n]
Str(n) == [t |-> "str", size |-> n]
Lines(s) == [t |-> "lines", lines |-> s]
Hint(n) == [t |-> "hint", v |-> n]
ShortHint == [t |-> "short"]
NoItems == [t |-> "noitems"]
EmptyClip == [k \in {} |-> Unreadable]

Sizes == {0, SizeLimit, SizeLimit + Excess}
\* the lengths of a text: empty, longer than the limit
TextSizes == {0, SizeLimit + Excess}
SeqsUpTo(S, n) == UNION {[1..k -> S] : k \in 0..n}

Vals(p, k) ==
  IF k \in RawKeys THEN {Unreadable, Corrupt(SizeLimit)} \cup {Bytes(n) : n \in Sizes}
  ELSE IF k \in ByteKeys THEN {Unreadable} \cup {Bytes(n) : n \in Sizes}
  ELSE IF k \in StrKeys
    THEN {Unreadable} \cup {Str(n) : n \in TextSizes}
         \cup (IF p = "macos" THEN {NoItems} ELSE {})
  ELSE IF k = "FILES"
    THEN {Unreadable} \cup
         {Lines(s) : s \in SeqsUpTo(IF p = "win" THEN {"p"} ELSE {"p", "x"}, MaxFiles)}
  ELSE {Unreadable, ShortHint} \cup {Hint(n) : n \in Sizes}

\* every snapshot over the keys ks that advertises at most MaxPresent formats
RECURSIVE ClipsOver(_, _)
ClipsOver(p, ks) ==
  IF ks = {} THEN {EmptyClip}
  ELSE LET k == CHOOSE x \in ks : TRUE
           rest == ClipsOver(p, ks \ {k})
       IN rest \cup {(k :> v) @@ c : v \in Vals(p, k),
                                      c \in {d \in rest : Cardinality(DOMAIN d) < MaxPresent}}

Clips(p) == ClipsOver(p, Keys(p))

LinuxClips == Clips("linux")
WinClips == Clips("win")
MacClips == Clips("macos")
ClipsOf(p) == IF p = "linux" THEN LinuxClips ELSE IF p = "win" THEN WinClips ELSE MacClips

RECURSIVE NoDup(_)
NoDup(s) == IF Len(s) <= 1 THEN TRUE
            ELSE (\A i \in 2..Len(s) : s[i] # s[1]) /\ NoDup(Tail(s))
CustomLists == {s \in SeqsUpTo(CustomNames, MaxCustom) : NoDup(s)}

VARIABLES
  platform,        \* which observer runs
  custom_formats,  \* the observer's custom_formats, in the caller's order
  max_size,        \* the observer's max_size ({} for None, {n} for Some(n))
  clip,            \* the snapshot on the clipboard (empty while it is replaced)
  incr,            \* X11: the owner stages size-gated payloads as INCR transfers
  fault,           \* "catalog": the catalog cannot be built in this cycle
  phase,           \* "replacing", "changed" (notification pending), "done"
  verdict,         \* what the gatekeeper answered in this cycle
  ops,             \* what the cycle did, in order: "catalog", "gate", format read
  wrapper,         \* the outcome of the extractor
  sent             \* the results send_all published in this cycle

VARIABLES
  listener,        \* the ClipboardEventListener: spawn, running, disposal
  thread,          \* where the observer thread is
  stop,            \* Driver::stop
  monitor,         \* the state of the change-notification mechanism
  events,          \* change notifications not yet seen by the observer
  board,           \* what the clipboard holds now
  lock,            \* who holds the mutex of BodySenders::senders
  registry,        \* the keys of BodySenders::senders
  stream,          \* each ClipboardStream's state
  chan,            \* each stream's mpsc channel
  published,       \* the kinds of the results passed to send_all, in order
  changes,         \* how many times the content changed while monitored
  cycles,          \* how many changes the observer detected
  taken            \* per stream not yet dropped, the place among the results
                   \* of the last item it yielded (0 before the first)

VARIABLES
  xpc,             \* X11: where read_format_with_size_check is
  xlimit,          \* X11: the max_size the read was called with
  xprop,           \* X11: the properties staged on the observer's window
  xqueue,          \* X11: the events the connection has not yet handed out
  xbuf,            \* X11: the bytes read_property_data has collected
  xresult,         \* X11: what the read returned
  xowner,          \* X11: the selection owner: request, payload, transfer
  xexpired,        \* X11: DEFAULT_TIMEOUT has passed since start_time
  xcalls,          \* X11: how many reads were made on this connection
  xnoise           \* X11: how many unrelated events have arrived

VARIABLES
  targets,         \* X11: the atoms the owner answers to TARGETS
  atoms_cache,     \* X11: the atoms whose names LinuxObserver has cached
  formats,         \* X11: the catalog get_available_formats built last
  gatekeeper,      \* X11: which Gatekeeper the observer was built with
  runs             \* X11: the resolutions of the current content, in order

cvars == <<platform, custom_formats, max_size, clip, incr, fault, phase,
           verdict, ops, wrapper, sent>>
lvars == <<listener, thread, stop, monitor, events, board, lock, registry,
           stream, chan, published, changes, cycles, taken>>
lvarsButThread == <<listener, stop, monitor, events, board, lock, registry,
                    stream, chan, published, changes, cycles, taken>>
xvars == <<xpc, xlimit, xprop, xqueue, xbuf, xresult, xowner, xexpired,
           xcalls, xnoise>>
vars == <<platform, custom_formats, max_size, clip, incr, fault, phase,
          verdict, ops, wrapper, sent,
          listener, thread, stop, monitor, events, board, lock, registry,
          stream, chan, published, changes, cycles, taken,
          xpc, xlimit, xprop, xqueue, xbuf, xresult, xowner, xexpired,
          xcalls, xnoise,
          targets, atoms_cache, formats, gatekeeper, runs>>
kvars == <<targets, atoms_cache, formats, gatekeeper, runs>>
(* ------------------------------ Body ----------------------------------- *)
NewCustom(name, n) == [tag |-> "Custom", name |-> name, size |-> n]
NewPng(n, path) == [tag |-> "PngImage", size |-> n, path |-> path]
NewImage(n, path) == [tag |-> "RawImage", size |-> n, path |-> path]
NewFileList(files) == [tag |-> "FileList", files |-> files]
NewHtml(n) == [tag |-> "Html", size |-> n]
NewText(n) == [tag |-> "PlainText", size |-> n]

\* Formats::contains_id / contains_format
Contains(c, k) == k \in DOMAIN c

\* a step of the extractor: r is "ok", "absent" or the ErrorWrapper it raised
Res(r, v, o) == [r |-> r, v |-> v, ops |-> o]

IsSome(m) == m # {}
TooLarge(n, m) == \E lim \in m : n > lim

(* ------------------------------ X11 ------------------------------------ *)
\* faulty variant of RequestAndReadProperty: only the first unit of the data is kept
RequestAndReadProperty_Truncated(c, k) ==
  IF c[k].t = "unreadable" THEN Res("ReadError", 0, <<k>>)
  ELSE IF c[k].t \in {"bytes", "str"}
    THEN Res("ok", [c[k] EXCEPT !.size = IF @ > 1 THEN 1 ELSE @], <<k>>)
  ELSE Res("ok", c[k], <<k>>)

\* the owner converts the selection to format k and the staged data is read
RequestAndReadProperty(c, k) ==
  IF c[k].t = "unreadable" THEN Res("ReadError", 0, <<k>>)
  ELSE Res("ok", c[k], <<k>>)

\* bytes_after of a zero-length read of the staged property: for an INCR
\* transfer the staged property is the marker, not the payload
GetPropertySize(c, inc, k) == IF inc THEN IncrMarkerBytes ELSE c[k].size

\* step 2 and later of read_format_with_size_check
SizeProbeAndRead(c, inc, k, m) ==
  IF c[k].t = "unreadable" THEN Res("ReadError", 0, <<k>>)
  ELSE IF IsSome(m) /\ GetPropertySize(c, inc, k) = 0 THEN Res("EmptyContent", 0, <<k>>)
  ELSE IF IsSome(m) /\ TooLarge(GetPropertySize(c, inc, k), m)
    THEN Res("SizeTooLarge", 0, <<k>>)
  ELSE Res("ok", c[k].size, <<k>>)

ReadFormatWithSizeCheck(c, inc, k, m) ==
  IF IsSome(m) /\ Contains(c, "LENGTH")
  THEN LET len == RequestAndReadProperty(c, "LENGTH") IN
       IF len.r # "ok" THEN len
       ELSE IF len.v.t = "hint"
         THEN IF len.v.v = 0 THEN Res("EmptyContent", 0, <<"LENGTH">>)
              ELSE IF TooLarge(len.v.v, m) THEN Res("SizeTooLarge", 0, <<"LENGTH">>)
              ELSE LET data == RequestAndReadProperty(c, k) IN
                   Res(data.r, IF data.r = "ok" THEN data.v.size ELSE 0, <<"LENGTH", k>>)
         ELSE LET probe == SizeProbeAndRead(c, inc, k, m) IN
              Res(probe.r, probe.v, <<"LENGTH">> \o probe.ops)
  ELSE SizeProbeAndRead(c, inc, k, m)

\* a line of a uri-list yields a path when it has the file:// prefix and decodes
IsFileUri(line) == line = "p"
PathsFromUriList(lines) == SelectSeq(lines, IsFileUri)

LinuxExtractFileList(c) ==
  LET raw == RequestAndReadProperty(c, "FILES") IN
  IF raw.r # "ok" THEN raw ELSE Res("ok", PathsFromUriList(raw.v.lines), <<"FILES">>)

\* faulty variant of FirstContained: the last listed format the catalog contains wins
FirstContained_Last(c, fs) ==
  LET at == {i \in 1..Len(fs) : Contains(c, fs[i])} IN
  IF at = {} THEN <<>> ELSE <<fs[CHOOSE i \in at : \A j \in at : j <= i]>>

\* the first custom format, in the caller's order, that the catalog contains
RECURSIVE FirstContained(_, _)
FirstContained(c, fs) ==
  IF fs = <<>> THEN <<>>
  ELSE IF Contains(c, Head(fs)) THEN <<Head(fs)>>
  ELSE FirstContained(c, Tail(fs))

Out(w, b, o) == [w |-> w, body |-> b, ops |-> o]

\* faulty variant of LinuxStandardFormats: HTML and text pass the size check
LinuxStandardFormats_TextGated(c, inc, m, pre) ==
  IF Contains(c, "PNG")
  THEN LET bytes == ReadFormatWithSizeCheck(c, inc, "PNG", m) IN
       IF bytes.r # "ok" THEN Out(bytes.r, NoBody, pre \o bytes.ops)
       ELSE IF Contains(c, "FILES")
         THEN LET files == LinuxExtractFileList(c) IN
              Out("Some",
                  NewPng(bytes.v, IF files.r = "ok" /\ Len(files.v) = 1
                                  THEN files.v[1] ELSE NoPath),
                  pre \o bytes.ops \o files.ops)
         ELSE Out("Some", NewPng(bytes.v, NoPath), pre \o bytes.ops)
  ELSE IF Contains(c, "FILES")
  THEN LET files == LinuxExtractFileList(c) IN
       IF files.r # "ok" THEN Out(files.r, NoBody, pre \o files.ops)
       ELSE Out("Some", NewFileList(files.v), pre \o files.ops)
  ELSE IF Contains(c, "HTML")
  THEN LET bytes == ReadFormatWithSizeCheck(c, FALSE, "HTML", m) IN
       IF bytes.r # "ok" THEN Out(bytes.r, NoBody, pre \o bytes.ops)
       ELSE Out("Some", NewHtml(bytes.v), pre \o bytes.ops)
  ELSE IF Contains(c, "TEXT")
  THEN LET bytes == ReadFormatWithSizeCheck(c, FALSE, "TEXT", m) IN
       IF bytes.r # "ok" THEN Out(bytes.r, NoBody, pre \o bytes.ops)
       ELSE Out("Some", NewText(bytes.v), pre \o bytes.ops)
  ELSE Out("NoMatchingFormat", NoBody, pre)

LinuxStandardFormats(c, inc, m, pre) ==
  IF Contains(c, "PNG")
  THEN LET bytes == ReadFormatWithSizeCheck(c, inc, "PNG", m) IN
       IF bytes.r # "ok" THEN Out(bytes.r, NoBody, pre \o bytes.ops)
       ELSE IF Contains(c, "FILES")
         THEN LET files == LinuxExtractFileList(c) IN
              Out("Some",
                  NewPng(bytes.v, IF files.r = "ok" /\ Len(files.v) = 1
                                  THEN files.v[1] ELSE NoPath),
                  pre \o bytes.ops \o files.ops)
         ELSE Out("Some", NewPng(bytes.v, NoPath), pre \o bytes.ops)
  ELSE IF Contains(c, "FILES")
  THEN LET files == LinuxExtractFileList(c) IN
       IF files.r # "ok" THEN Out(files.r, NoBody, pre \o files.ops)
       ELSE Out("Some", NewFileList(files.v), pre \o files.ops)
  ELSE IF Contains(c, "HTML")
  THEN LET bytes == RequestAndReadProperty(c, "HTML") IN
       IF bytes.r # "ok" THEN Out(bytes.r, NoBody, pre \o bytes.ops)
       ELSE Out("Some", NewHtml(bytes.v.size), pre \o bytes.ops)
  ELSE IF Contains(c, "TEXT")
  THEN LET bytes == RequestAndReadProperty(c, "TEXT") IN
       IF bytes.r # "ok" THEN Out(bytes.r, NoBody, pre \o bytes.ops)
       ELSE Out("Some", NewText(bytes.v.size), pre \o bytes.ops)
  ELSE Out("NoMatchingFormat", NoBody, pre)

LinuxExtractClipboardContent(c, inc, flt, fs, m, allow) ==
  IF flt = "catalog" THEN Out("ReadError", NoBody, <<>>)
  ELSE IF ~allow THEN Out("UserSkipped", NoBody, <<"catalog", "gate">>)
  ELSE LET first == FirstContained(c, fs) IN
       IF first # <<>>
       THEN LET data == ReadFormatWithSizeCheck(c, inc, first[1], m) IN
            IF data.r # "ok" THEN Out(data.r, NoBody, <<"catalog", "gate">> \o data.ops)
            ELSE Out("Some", NewCustom(first[1], data.v), <<"catalog", "gate">> \o data.ops)
       ELSE LinuxStandardFormats(c, inc, m, <<"catalog", "gate">>)

\* the argument of send_all
Publish(body) == <<[ok |-> TRUE, body |-> body, err |-> "none"]>>
PublishErr(e) == <<[ok |-> FALSE, body |-> NoBody, err |-> e]>>

\* a poll: the extractor's outcome x and what the loop passes to send_all
Polled(x, pub) == [x |-> x, pub |-> pub]

\* faulty variant of LinuxPollClipboard: a gatekeeper veto is surfaced as an error
LinuxPollClipboard_VetoAsError(c, inc, flt, fs, m, allow) ==
  LET x == LinuxExtractClipboardContent(c, inc, flt, fs, m, allow) IN
  IF x.w = "Some" THEN Polled(x, Publish(x.body))
  ELSE IF x.w \in {"None", "SizeTooLarge", "EmptyContent"} THEN Polled(x, <<>>)
  ELSE Polled(x, PublishErr(x.w))

LinuxPollClipboard(c, inc, flt, fs, m, allow) ==
  LET x == LinuxExtractClipboardContent(c, inc, flt, fs, m, allow) IN
  IF x.w = "Some" THEN Polled(x, Publish(x.body))
  ELSE IF x.w \in {"None", "SizeTooLarge", "UserSkipped", "EmptyContent"}
    THEN Polled(x, <<>>)
  ELSE Polled(x, PublishErr(x.w))

(* ------------------------------ Win32 ---------------------------------- *)
\* clipboard_win::size: None when the handle cannot be obtained or is empty
WinSize(c, k) == IF c[k].t = "unreadable" \/ c[k].size = 0 THEN {} ELSE {c[k].size}

WinExtractClipboardFormat(c, k, m) ==
  IF ~Contains(c, k) THEN Res("absent", Unreadable, <<>>)
  ELSE IF IsSome(m) /\ WinSize(c, k) = {} THEN Res("EmptyContent", Unreadable, <<k>>)
  ELSE IF IsSome(m) /\ (\E n \in WinSize(c, k) : TooLarge(n, m))
    THEN Res("SizeTooLarge", Unreadable, <<k>>)
  ELSE IF c[k].t = "unreadable" THEN Res("ReadError", Unreadable, <<k>>)
  ELSE IF c[k].size = 0 THEN Res("EmptyContent", Unreadable, <<k>>)
  ELSE Res("ok", c[k], <<k>>)

\* load_dib / load_from_memory_with_format: decoding the raw image
Decode(x) == IF x.r = "ok" /\ x.v.t = "corrupt" THEN Res("ReadError", Unreadable, x.ops) ELSE x

WinExtractRawImage(c, m) ==
  LET v5 == WinExtractClipboardFormat(c, "DIBV5", m) IN
  IF v5.r # "absent" THEN Decode(v5)
  ELSE Decode(WinExtractClipboardFormat(c, "DIB", m))

WinExtractFilesList(c) ==
  IF ~Contains(c, "FILES") THEN Res("absent", <<>>, <<>>)
  ELSE IF c["FILES"].t = "unreadable" THEN Res("absent", <<>>, <<"FILES">>)
  ELSE IF c["FILES"].lines = <<>> THEN Res("EmptyContent", <<>>, <<"FILES">>)
  ELSE Res("ok", c["FILES"].lines, <<"FILES">>)

\* faulty variant of ImagePath: the first entry of a longer list is taken as the path
ImagePath_FirstOfMany(files) ==
  IF files.r = "ok" /\ Len(files.v) >= 1 THEN files.v[1] ELSE NoPath

\* .filter(|list| list.len() == 1).map(|mut files| files.remove(0))
ImagePath(files) == IF files.r = "ok" /\ Len(files.v) = 1 THEN files.v[1] ELSE NoPath

\* the loop over custom_formats; an absent format lets the loop go on
RECURSIVE WinCustomFormats(_, _, _, _)
WinCustomFormats(c, fs, m, pre) ==
  IF fs = <<>> THEN Out("None", NoBody, pre)
  ELSE LET bytes == WinExtractClipboardFormat(c, Head(fs), m) IN
       IF bytes.r = "ok" THEN Out("Some", NewCustom(Head(fs), bytes.v.size), pre \o bytes.ops)
       ELSE IF bytes.r = "absent" THEN WinCustomFormats(c, Tail(fs), m, pre \o bytes.ops)
       ELSE Out(bytes.r, NoBody, pre \o bytes.ops)

\* Html / Unicode read_clipboard followed by content_is_not_empty
WinReadText(c, k) ==
  IF ~Contains(c, k) \/ c[k].t = "unreadable" THEN Res("absent", 0, <<k>>)
  ELSE IF c[k].size = 0 THEN Res("EmptyContent", 0, <<k>>)
  ELSE Res("ok", c[k].size, <<k>>)

\* faulty variant of WinTextFormats: plain text is tried before HTML
WinTextFormats_TextFirst(c, pre) ==
  LET text == WinReadText(c, "TEXT") IN
  IF text.r = "ok" THEN Out("Some", NewText(text.v), pre \o text.ops)
  ELSE IF text.r # "absent" THEN Out(text.r, NoBody, pre \o text.ops)
  ELSE LET html == WinReadText(c, "HTML") IN
       IF html.r = "ok" THEN Out("Some", NewHtml(html.v), pre \o text.ops \o html.ops)
       ELSE IF html.r # "absent" THEN Out(html.r, NoBody, pre \o text.ops \o html.ops)
       ELSE Out("None", NoBody, pre \o text.ops \o html.ops)

WinTextFormats(c, pre) ==
  LET html == WinReadText(c, "HTML") IN
  IF html.r = "ok" THEN Out("Some", NewHtml(html.v), pre \o html.ops)
  ELSE IF html.r # "absent" THEN Out(html.r, NoBody, pre \o html.ops)
  ELSE LET text == WinReadText(c, "TEXT") IN
       IF text.r = "ok" THEN Out("Some", NewText(text.v), pre \o html.ops \o text.ops)
       ELSE IF text.r # "absent" THEN Out(text.r, NoBody, pre \o html.ops \o text.ops)
       ELSE Out("None", NoBody, pre \o html.ops \o text.ops)

WinStandardFormats(c, m, pre) ==
  LET png == WinExtractClipboardFormat(c, "PNG", m) IN
  IF png.r = "ok"
  THEN LET files == WinExtractFilesList(c) IN
       IF files.r \notin {"ok", "absent"} THEN Out(files.r, NoBody, pre \o png.ops \o files.ops)
       ELSE Out("Some", NewPng(png.v.size, ImagePath(files)), pre \o png.ops \o files.ops)
  ELSE IF png.r # "absent" THEN Out(png.r, NoBody, pre \o png.ops)
  ELSE LET image == WinExtractRawImage(c, m) IN
  IF image.r = "ok"
  THEN LET files == WinExtractFilesList(c) IN
       IF files.r \notin {"ok", "absent"}
       THEN Out(files.r, NoBody, pre \o image.ops \o files.ops)
       ELSE Out("Some", NewImage(image.v.size, ImagePath(files)),
                pre \o image.ops \o files.ops)
  ELSE IF image.r # "absent" THEN Out(image.r, NoBody, pre \o image.ops)
  ELSE LET files == WinExtractFilesList(c) IN
  IF files.r = "ok" THEN Out("Some", NewFileList(files.v), pre \o files.ops)
  ELSE IF files.r # "absent" THEN Out(files.r, NoBody, pre \o files.ops)
  ELSE WinTextFormats(c, pre \o files.ops)

WinExtractClipboardContent(c, fs, m, allow) ==
  IF ~allow THEN Out("UserSkipped", NoBody, <<"catalog", "gate">>)
  ELSE LET custom == WinCustomFormats(c, fs, m, <<"catalog", "gate">>) IN
       IF custom.w # "None" THEN custom ELSE WinStandardFormats(c, m, custom.ops)

\* faulty variant of WinPollClipboard: skipped content is reported as unmatched
WinPollClipboard_SkippedAsNoMatch(c, flt, fs, m, allow) ==
  IF flt = "catalog"
  THEN Polled(Out("ReadError", NoBody, <<>>), PublishErr("ReadError"))
  ELSE LET x == WinExtractClipboardContent(c, fs, m, allow) IN
       IF x.w = "Some" THEN Polled(x, Publish(x.body))
       ELSE IF x.w = "ReadError" THEN Polled(x, PublishErr("ReadError"))
       ELSE Polled(x, PublishErr("NoMatchingFormat"))

\* Clipboard::new_attempts, the extractor, and what becomes of its outcome
WinPollClipboard(c, flt, fs, m, allow) ==
  IF flt = "catalog"
  THEN Polled(Out("ReadError", NoBody, <<>>), PublishErr("ReadError"))
  ELSE LET x == WinExtractClipboardContent(c, fs, m, allow) IN
       IF x.w = "Some" THEN Polled(x, Publish(x.body))
       ELSE IF x.w \in {"EmptyContent", "SizeTooLarge", "UserSkipped"} THEN Polled(x, <<>>)
       ELSE IF x.w = "ReadError" THEN Polled(x, PublishErr("ReadError"))
       ELSE Polled(x, PublishErr("NoMatchingFormat"))

(* ---------------------------- NSPasteboard ----------------------------- *)
\* faulty variant of ExtractClipboardFormatMacos: an oversized format counts as absent
ExtractClipboardFormatMacos_SkipOversize(c, k, m) ==
  IF ~Contains(c, k) THEN Res("absent", Unreadable, <<>>)
  ELSE IF c[k].t = "unreadable" THEN Res("absent", Unreadable, <<k>>)
  ELSE IF c[k].size = 0 THEN Res("EmptyContent", Unreadable, <<k>>)
  ELSE IF TooLarge(c[k].size, m) THEN Res("absent", Unreadable, <<k>>)
  ELSE Res("ok", c[k], <<k>>)

ExtractClipboardFormatMacos(c, k, m) ==
  IF ~Contains(c, k) THEN Res("absent", Unreadable, <<>>)
  ELSE IF c[k].t = "unreadable" THEN Res("absent", Unreadable, <<k>>)
  ELSE IF c[k].size = 0 THEN Res("EmptyContent", Unreadable, <<k>>)
  ELSE IF TooLarge(c[k].size, m) THEN Res("SizeTooLarge", Unreadable, <<k>>)
  ELSE Res("ok", c[k], <<k>>)

OSXExtractFilesList(c) ==
  IF ~Contains(c, "FILES") THEN Res("absent", <<>>, <<>>)
  ELSE IF c["FILES"].t = "unreadable" THEN Res("absent", <<>>, <<"FILES">>)
  ELSE IF PathsFromUriList(c["FILES"].lines) = <<>> THEN Res("absent", <<>>, <<"FILES">>)
  ELSE Res("ok", PathsFromUriList(c["FILES"].lines), <<"FILES">>)

OSXExtractRawImage(c, m) == Decode(ExtractClipboardFormatMacos(c, "TIFF", m))

\* faulty variant of StringFromType: an empty string counts as absent
StringFromType_EmptyAbsent(c, k) ==
  IF ~Contains(c, k) THEN Res("absent", 0, <<>>)
  ELSE IF c[k].t = "noitems" THEN Res("EmptyContent", 0, <<k>>)
  ELSE IF c[k].t = "unreadable" THEN Res("absent", 0, <<k>>)
  ELSE IF c[k].size = 0 THEN Res("absent", 0, <<k>>)
  ELSE Res("ok", c[k].size, <<k>>)

StringFromType(c, k) ==
  IF ~Contains(c, k) THEN Res("absent", 0, <<>>)
  ELSE IF c[k].t = "noitems" THEN Res("EmptyContent", 0, <<k>>)
  ELSE IF c[k].t = "unreadable" THEN Res("absent", 0, <<k>>)
  ELSE IF c[k].size = 0 THEN Res("EmptyContent", 0, <<k>>)
  ELSE Res("ok", c[k].size, <<k>>)

RECURSIVE OSXCustomFormats(_, _, _, _)
OSXCustomFormats(c, fs, m, pre) ==
  IF fs = <<>> THEN Out("None", NoBody, pre)
  ELSE LET bytes == ExtractClipboardFormatMacos(c, Head(fs), m) IN
       IF bytes.r = "ok" THEN Out("Some", NewCustom(Head(fs), bytes.v.size), pre \o bytes.ops)
       ELSE IF bytes.r = "absent" THEN OSXCustomFormats(c, Tail(fs), m, pre \o bytes.ops)
       ELSE Out(bytes.r, NoBody, pre \o bytes.ops)

OSXTextFormats(c, pre) ==
  LET html == StringFromType(c, "HTML") IN
  IF html.r = "ok" THEN Out("Some", NewHtml(html.v), pre \o html.ops)
  ELSE IF html.r # "absent" THEN Out(html.r, NoBody, pre \o html.ops)
  ELSE LET text == StringFromType(c, "TEXT") IN
       IF text.r = "ok" THEN Out("Some", NewText(text.v), pre \o html.ops \o text.ops)
       ELSE IF text.r # "absent" THEN Out(text.r, NoBody, pre \o html.ops \o text.ops)
       ELSE Out("None", NoBody, pre \o html.ops \o text.ops)

OSXStandardFormats(c, m, pre) ==
  LET png == ExtractClipboardFormatMacos(c, "PNG", m) IN
  IF png.r = "ok"
  THEN LET files == OSXExtractFilesList(c) IN
       Out("Some", NewPng(png.v.size, ImagePath(files)), pre \o png.ops \o files.ops)
  ELSE IF png.r # "absent" THEN Out(png.r, NoBody, pre \o png.ops)
  ELSE LET image == OSXExtractRawImage(c, m) IN
  IF image.r = "ok"
  THEN LET files == OSXExtractFilesList(c) IN
       Out("Some", NewImage(image.v.size, ImagePath(files)),
           pre \o png.ops \o image.ops \o files.ops)
  ELSE IF image.r # "absent" THEN Out(image.r, NoBody, pre \o png.ops \o image.ops)
  ELSE LET files == OSXExtractFilesList(c) IN
  IF files.r = "ok" THEN Out("Some", NewFileList(files.v), pre \o png.ops \o image.ops \o files.ops)
  ELSE OSXTextFormats(c, pre \o png.ops \o image.ops \o files.ops)

OSXExtractContent(c, flt, fs, m, allow) ==
  IF flt = "catalog" THEN Out("ReadError", NoBody, <<>>)
  ELSE IF ~allow THEN Out("UserSkipped", NoBody, <<"catalog", "gate">>)
  ELSE LET custom == OSXCustomFormats(c, fs, m, <<"catalog", "gate">>) IN
       IF custom.w # "None" THEN custom ELSE OSXStandardFormats(c, m, custom.ops)

GetClipboardContent(c, flt, fs, m, allow) ==
  LET x == OSXExtractContent(c, flt, fs, m, allow) IN
  IF x.w = "Some" THEN Polled(x, Publish(x.body))
  ELSE IF x.w \in {"EmptyContent", "SizeTooLarge", "UserSkipped"} THEN Polled(x, <<>>)
  ELSE IF x.w = "ReadError" THEN Polled(x, PublishErr("ReadError"))
  ELSE Polled(x, PublishErr("NoMatchingFormat"))

(* ------------------------------ the loop ------------------------------- *)
\* faulty variant of Poll: a format over the limit or without content is
\* surfaced as an error
Poll_SkipAsError(p, c, inc, flt, fs, m, allow) ==
  LET r == IF p = "linux" THEN LinuxPollClipboard(c, inc, flt, fs, m, allow)
           ELSE IF p = "win" THEN WinPollClipboard(c, flt, fs, m, allow)
           ELSE GetClipboardContent(c, flt, fs, m, allow) IN
  IF r.x.w \in {"SizeTooLarge", "EmptyContent"}
  THEN Polled(r.x, PublishErr(r.x.w))
  ELSE r

Poll(p, c, inc, flt, fs, m, allow) ==
  IF p = "linux" THEN LinuxPollClipboard(c, inc, flt, fs, m, allow)
  ELSE IF p = "win" THEN WinPollClipboard(c, flt, fs, m, allow)
  ELSE GetClipboardContent(c, flt, fs, m, allow)

GateCalled(o) == \E i \in 1..Len(o) : o[i] = "gate"

(* ------------------- channels and the fan-out registry ----------------- *)
StreamIds == 1..MaxStreams
\* the mutex of BodySenders::senders is free
NoHolder == 0

\* mpsc::channel(buffer), with the one Sender that new_stream registers
Channel(b) == [buf |-> <<>>, parked |-> FALSE, open |-> TRUE, cap |-> b]
NoChannel == [buf |-> <<>>, parked |-> FALSE, open |-> FALSE, cap |-> 0]

\* faulty variant of HasCapacity: a closed channel still takes messages
HasCapacity_IgnoreClosed(c) == ~c.parked

\* try_send succeeds on an open channel whose sender is not parked
HasCapacity(c) == c.open /\ ~c.parked

\* Sender::try_send: the message that exceeds the buffer is still queued and
\* parks the sender; a parked sender or a closed channel gets an error
TrySend(c, v) ==
  IF HasCapacity(c)
  THEN [c EXCEPT !.buf = Append(@, v), !.parked = Len(c.buf) + 1 > c.cap]
  ELSE c

\* faulty variant of Receive: the newest message is removed, not the oldest
Receive_Newest(c) == [c EXCEPT !.buf = SubSeq(@, 1, Len(@) - 1), !.parked = FALSE]

\* faulty variant of Receive: the parked sender is not woken
Receive_StayParked(c) == [c EXCEPT !.buf = Tail(@)]

\* Receiver::poll_next / try_next taking a message: the sender is unparked
Receive(c) == [c EXCEPT !.buf = Tail(@), !.parked = FALSE]

\* Receiver::close
Close(c) == [c EXCEPT !.open = FALSE]

\* faulty variant of SendAll: a full queue ends the delivery for everyone
SendAll_StopAtFull(ch, reg, v) ==
  IF \E id \in reg : ~HasCapacity(ch[id]) THEN ch
  ELSE [id \in StreamIds |-> IF id \in reg THEN TrySend(ch[id], v) ELSE ch[id]]

\* BodySenders::send_all: try_send to every registered sender
SendAll(ch, reg, v) ==
  [id \in StreamIds |-> IF id \in reg THEN TrySend(ch[id], v) ELSE ch[id]]

\* faulty variant of Register: the sender is not put into the map
Register_Skip(reg, id) == reg

\* BodySenders::register
Register(reg, id) == reg \cup {id}

\* faulty variant of Unregister: the entry stays in the map
Unregister_Keep(reg, id) == reg

\* BodySenders::unregister
Unregister(reg, id) == reg \ {id}

\* the kind of a ClipboardResult
ResultKind(pub) == IF pub[1].ok THEN "Ok" ELSE pub[1].err

\* the clone of the n-th result passed to send_all, as it sits in a queue
Item(n, kind) == [seq |-> n, kind |-> kind]

(* --------------------- X11: reading one selection ---------------------- *)
\* the properties of the observer's window the conversions are staged on
Props == {"METADATA", "DATA"}
NoProp == [t |-> "none"]
IncrMarker == [t |-> "INCR"]
Staged(b) == [t |-> "data", bytes |-> b]

\* what an owner holds: chunk 1, chunk 2, ... in this order
Payload(k) == [i \in 1..k |-> i]
Payloads == {Payload(k) : k \in 0..MaxChunks}
SizeOf(b) == Len(b) * ChunkBytes
\* what an owner answers to LENGTH
Hints == {ShortHint} \cup {Hint(SizeOf(b)) : b \in Payloads}

\* the value get_property returns for a staged property
Value(p) == IF p.t = "data" THEN p.bytes ELSE <<>>

\* get_property_size of a staged property: bytes_after of a zero-length
\* get_property
StagedSize(p) ==
  CASE p.t = "INCR" -> IncrMarkerBytes
    [] p.t = "data" -> SizeOf(p.bytes)
    [] OTHER        -> 0

\* the events of the connection; old: generated before the last request of
\* request_property got its sequence number
SelectionNotify(p) == [e |-> "sel", prop |-> p, state |-> "none", old |-> FALSE]
PropertyNotify(p, st) == [e |-> "prop", prop |-> p, state |-> st, old |-> FALSE]
OtherEvent == [e |-> "other", prop |-> "NONE", state |-> "none", old |-> FALSE]

\* every event already queued carries a smaller sequence number than the
\* request that is sent now
Aged(q) == [i \in DOMAIN q |-> [q[i] EXCEPT !.old = TRUE]]

\* delete_property, and the PropertyNotify the server generates for it (the
\* window selects PROPERTY_CHANGE)
Deleted(props, p) == [props EXCEPT ![p] = NoProp]
DeleteEvents(props, p) ==
  IF props[p] = NoProp THEN <<>> ELSE <<PropertyNotify(p, "del")>>

NoOwner == [req |-> "none", data |-> <<>>, mode |-> "none", rest |-> <<>>,
            open |-> FALSE]

\* the connection before any read
NoRead ==
  /\ xpc = "idle"
  /\ xlimit = NoLimit
  /\ xprop = [p \in Props |-> NoProp]
  /\ xqueue = <<>>
  /\ xbuf = <<>>
  /\ xresult = "none"
  /\ xowner = NoOwner
  /\ xexpired = FALSE
  /\ xcalls = 0
  /\ xnoise = 0

\* the loops of request_property
Waits == {"wait_len", "wait_hinted", "wait_data"}

\* faulty variant of TimedOut: the loops never look at the clock
TimedOut_Never == FALSE
\* start_time.elapsed() > DEFAULT_TIMEOUT, checked at the head of each loop
TimedOut == xexpired

\* faulty variant of IsChunkArrival: the state of the notification is ignored
IsChunkArrival_AnyState(ev) == ev.e = "prop" /\ ev.prop = "DATA"
\* read_property_data: the notification that announces a chunk
IsChunkArrival(ev) == ev.e = "prop" /\ ev.prop = "DATA" /\ ev.state = "new"

Return(r) == xpc' = "done" /\ xresult' = r

\* where read_format_with_size_check goes when request_property returns the
\* property
AfterWait(pc, m) ==
  CASE pc = "wait_len"    -> "peek_len"
    [] pc = "wait_hinted" -> "peek"
    [] pc = "wait_data"   -> IF IsSome(m) THEN "probe" ELSE "peek"

\* read_format_with_size_check is called: with a limit and a LENGTH target
\* on offer the size is asked first, otherwise the format is requested
ReadStart ==
  /\ xpc \in {"idle", "done"}
  /\ xcalls < MaxCalls
  /\ xcalls' = xcalls + 1
  /\ \E m \in {NoLimit, {SizeLimit}}, offered \in BOOLEAN :
       /\ xlimit' = m
       /\ IF IsSome(m) /\ offered
          THEN /\ xpc' = "wait_len"
               /\ xowner' = [NoOwner EXCEPT !.req = "LENGTH"]
          ELSE /\ xpc' = "wait_data"
               /\ xowner' = [NoOwner EXCEPT !.req = "DATA"]
  /\ xqueue' = Aged(xqueue)
  /\ xbuf' = <<>>
  /\ xresult' = "none"
  /\ xexpired' = FALSE
  /\ UNCHANGED <<xprop, xnoise>>
  /\ UNCHANGED kvars
  /\ UNCHANGED cvars
  /\ UNCHANGED lvars

\* one iteration of the loop of request_property
RequestWait ==
  /\ xpc \in Waits
  /\ IF TimedOut
     THEN /\ Return("ReadError")
          /\ UNCHANGED <<xqueue, xexpired>>
     ELSE /\ xqueue # <<>>
          /\ xqueue' = Tail(xqueue)
          /\ LET ev == Head(xqueue) IN
             IF ~ev.old /\ ev.e = "sel"
             THEN IF ev.prop = "NONE"
                  THEN /\ Return("ReadError")
                       /\ UNCHANGED xexpired
                  ELSE /\ xpc' = AfterWait(xpc, xlimit)
                       /\ xexpired' = FALSE
                       /\ UNCHANGED xresult
             ELSE UNCHANGED <<xpc, xresult, xexpired>>
  /\ UNCHANGED <<xlimit, xprop, xbuf, xowner, xcalls, xnoise>>
  /\ UNCHANGED kvars
  /\ UNCHANGED cvars
  /\ UNCHANGED lvars

\* step 1 of read_format_with_size_check once LENGTH is staged: the hint is
\* read and deleted, then judged
PeekLen ==
  /\ xpc = "peek_len"
  /\ LET v == xprop["METADATA"]
         q == xqueue \o DeleteEvents(xprop, "METADATA")
     IN
     /\ xprop' = Deleted(xprop, "METADATA")
     /\ IF v.t = "hint" /\ v.v = 0
        THEN /\ Return("EmptyContent")
             /\ xqueue' = q
             /\ UNCHANGED <<xowner, xexpired>>
        ELSE IF v.t = "hint" /\ TooLarge(v.v, xlimit)
        THEN /\ Return("SizeTooLarge")
             /\ xqueue' = q
             /\ UNCHANGED <<xowner, xexpired>>
        ELSE /\ xpc' = IF v.t = "hint" THEN "wait_hinted" ELSE "wait_data"
             /\ xowner' = [xowner EXCEPT !.req = "DATA"]
             /\ xqueue' = Aged(q)
             /\ xexpired' = FALSE
             /\ UNCHANGED xresult
  /\ UNCHANGED <<xlimit, xbuf, xcalls, xnoise>>
  /\ UNCHANGED kvars
  /\ UNCHANGED cvars
  /\ UNCHANGED lvars

\* step 3 of read_format_with_size_check: the staged property is measured;
\* the request may be answered by an error
Probe ==
  /\ xpc = "probe"
  /\ \E answered \in BOOLEAN :
       LET size == StagedSize(xprop["DATA"]) IN
       IF ~answered
       THEN /\ Return("ReadError")
            /\ UNCHANGED <<xprop, xqueue>>
       ELSE IF size = 0
       THEN /\ Return("EmptyContent")
            /\ UNCHANGED <<xprop, xqueue>>
       ELSE IF TooLarge(size, xlimit)
       THEN /\ Return("SizeTooLarge")
            /\ xprop' = Deleted(xprop, "DATA")
            /\ xqueue' = xqueue \o DeleteEvents(xprop, "DATA")
       ELSE /\ xpc' = "peek"
            /\ UNCHANGED <<xresult, xprop, xqueue>>
  /\ UNCHANGED <<xlimit, xbuf, xowner, xexpired, xcalls, xnoise>>
  /\ UNCHANGED kvars
  /\ UNCHANGED cvars
  /\ UNCHANGED lvars

\* read_property_data up to its loop: an INCR marker is deleted and the
\* chunks awaited, anything else is the data itself
Peek ==
  /\ xpc = "peek"
  /\ xprop' = Deleted(xprop, "DATA")
  /\ xqueue' = xqueue \o DeleteEvents(xprop, "DATA")
  /\ IF xprop["DATA"] = IncrMarker
     THEN /\ xpc' = "incr"
          /\ xbuf' = <<>>
          /\ UNCHANGED xresult
     ELSE /\ xbuf' = Value(xprop["DATA"])
          /\ Return("Ok")
  /\ xexpired' = FALSE
  /\ UNCHANGED <<xlimit, xowner, xcalls, xnoise>>
  /\ UNCHANGED kvars
  /\ UNCHANGED cvars
  /\ UNCHANGED lvars

\* one iteration of the INCR loop of read_property_data
IncrStep ==
  /\ xpc = "incr"
  /\ IF TimedOut
     THEN /\ Return("ReadError")
          /\ UNCHANGED <<xqueue, xprop, xbuf>>
     ELSE /\ xqueue # <<>>
          /\ IF IsChunkArrival(Head(xqueue))
             THEN LET chunk == Value(xprop["DATA"]) IN
                  /\ xprop' = Deleted(xprop, "DATA")
                  /\ xqueue' = Tail(xqueue) \o DeleteEvents(xprop, "DATA")
                  /\ IF chunk = <<>>
                     THEN /\ Return("Ok")
                          /\ UNCHANGED xbuf
                     ELSE /\ xbuf' = xbuf \o chunk
                          /\ UNCHANGED <<xpc, xresult>>
             ELSE /\ xqueue' = Tail(xqueue)
                  /\ UNCHANGED <<xprop, xbuf, xpc, xresult>>
  /\ UNCHANGED <<xlimit, xowner, xexpired, xcalls, xnoise>>
  /\ UNCHANGED kvars
  /\ UNCHANGED cvars
  /\ UNCHANGED lvars

\* the owner declines the conversion: SelectionNotify with property None
OwnerRefuses ==
  /\ xowner.req # "none"
  /\ xowner' = [xowner EXCEPT !.req = "none"]
  /\ xqueue' = xqueue \o <<SelectionNotify("NONE")>>
  /\ UNCHANGED <<xpc, xlimit, xprop, xbuf, xresult, xexpired, xcalls, xnoise>>
  /\ UNCHANGED kvars
  /\ UNCHANGED cvars
  /\ UNCHANGED lvars

\* the owner answers LENGTH
OwnerStagesLength ==
  /\ xowner.req = "LENGTH"
  /\ \E h \in Hints : xprop' = [xprop EXCEPT !["METADATA"] = h]
  /\ xowner' = [xowner EXCEPT !.req = "none"]
  /\ xqueue' = xqueue \o <<PropertyNotify("METADATA", "new"),
                           SelectionNotify("METADATA")>>
  /\ UNCHANGED <<xpc, xlimit, xbuf, xresult, xexpired, xcalls, xnoise>>
  /\ UNCHANGED kvars
  /\ UNCHANGED cvars
  /\ UNCHANGED lvars

\* the owner answers the format: the data at once, or an INCR marker
OwnerStagesData ==
  /\ xowner.req = "DATA"
  /\ \E b \in Payloads, inc \in BOOLEAN :
       /\ xprop' = [xprop EXCEPT !["DATA"] =
                      IF inc THEN IncrMarker ELSE Staged(b)]
       /\ xowner' = [req |-> "none", data |-> b,
                     mode |-> IF inc THEN "incr" ELSE "direct",
                     rest |-> IF inc THEN b ELSE <<>>, open |-> inc]
  /\ xqueue' = xqueue \o <<PropertyNotify("DATA", "new"),
                           SelectionNotify("DATA")>>
  /\ UNCHANGED <<xpc, xlimit, xbuf, xresult, xexpired, xcalls, xnoise>>
  /\ UNCHANGED kvars
  /\ UNCHANGED cvars
  /\ UNCHANGED lvars

\* INCR: the owner sees its property deleted and writes the next chunk, or
\* the zero-length one when nothing is left
OwnerSendsChunk ==
  /\ xowner.open
  /\ xprop["DATA"] = NoProp
  /\ IF xowner.rest # <<>>
     THEN /\ xprop' = [xprop EXCEPT !["DATA"] = Staged(<<Head(xowner.rest)>>)]
          /\ xowner' = [xowner EXCEPT !.rest = Tail(@)]
     ELSE /\ xprop' = [xprop EXCEPT !["DATA"] = Staged(<<>>)]
          /\ xowner' = [xowner EXCEPT !.open = FALSE]
  /\ xqueue' = xqueue \o <<PropertyNotify("DATA", "new")>>
  /\ UNCHANGED <<xpc, xlimit, xbuf, xresult, xexpired, xcalls, xnoise>>
  /\ UNCHANGED kvars
  /\ UNCHANGED cvars
  /\ UNCHANGED lvars

\* an event that is no part of the transfer reaches the connection
Unrelated ==
  /\ xnoise < MaxNoise
  /\ xpc # "idle"
  /\ xnoise' = xnoise + 1
  /\ \E ev \in {OtherEvent, PropertyNotify("OTHER", "new")} :
       xqueue' = Append(xqueue, ev)
  /\ UNCHANGED <<xpc, xlimit, xprop, xbuf, xresult, xowner, xexpired, xcalls>>
  /\ UNCHANGED kvars
  /\ UNCHANGED cvars
  /\ UNCHANGED lvars

\* DEFAULT_TIMEOUT passes while a loop waits
Tick ==
  /\ xpc \in Waits \cup {"incr"}
  /\ ~xexpired
  /\ xexpired' = TRUE
  /\ UNCHANGED <<xpc, xlimit, xprop, xqueue, xbuf, xresult, xowner, xcalls,
                 xnoise>>
  /\ UNCHANGED kvars
  /\ UNCHANGED cvars
  /\ UNCHANGED lvars

\* the steps of the reading thread
ReaderStep == ReadStart \/ RequestWait \/ PeekLen \/ Probe \/ Peek \/ IncrStep

(* ----------------------- X11: building the catalog --------------------- *)
\* the targets get_available_formats filters out
IgnoredFormats == {"TIMESTAMP", "MULTIPLE", "TARGETS", "SAVE_TARGETS"}
\* an atom get_atom_name answers with an error
Nameless == "NAMELESS"
\* the atoms an owner may advertise
Atoms == IgnoredFormats \cup {"A", "TEXT", Nameless}

\* what the owner holds for the formats that carry content
Content == ("A" :> Bytes(SizeLimit)) @@ ("TEXT" :> Str(SizeLimit + Excess))

\* resolve_atom_names: the cached atoms first, then the atoms whose name the
\* server gives, each in the order of the list; the names given are cached
ResolveAtomNames(atoms, cache) ==
  LET Cached(a) == a \in cache
      Missing(a) == a \notin cache /\ a # Nameless
  IN
  [formats |-> SelectSeq(atoms, Cached) \o SelectSeq(atoms, Missing),
   cache |-> cache \cup {atoms[i] : i \in {j \in 1..Len(atoms) : Missing(atoms[j])}}]

\* faulty variant of GetAvailableFormats: nothing is filtered out
GetAvailableFormats_Unfiltered(tg, cache) == ResolveAtomNames(tg, cache)

\* get_available_formats: the TARGETS answer without the ignored atoms,
\* resolved to names
GetAvailableFormats(tg, cache) ==
  LET Kept(a) == a \notin IgnoredFormats IN
  ResolveAtomNames(SelectSeq(tg, Kept), cache)

\* the Gatekeepers an observer is built with: DefaultGatekeeper, one that
\* vetoes when a format is present (has_format), one that looks at the first
\* entry of formats()
Gatekeepers == {"default", "no_text", "first_not_text"}
Check(g, fs) ==
  CASE g = "default"        -> TRUE
    [] g = "no_text"        -> \A i \in 1..Len(fs) : fs[i] # "TEXT"
    [] g = "first_not_text" -> fs = <<>> \/ fs[1] # "TEXT"

\* Formats::contains_id over the catalog, as the snapshot the extractor sees
ClipOf(fs) ==
  [k \in {fs[i] : i \in 1..Len(fs)} \cap DOMAIN Content |-> Content[k]]

\* poll_clipboard over a catalog: the extractor's outcome and what is published
Resolution(fs, custom, m, g) ==
  LET r == LinuxPollClipboard(ClipOf(fs), FALSE, "none", custom, m, Check(g, fs)) IN
  [formats |-> fs, w |-> r.x.w, pub |-> r.pub]

\* no catalog has been built
NoCatalog ==
  /\ targets = <<>>
  /\ atoms_cache = {}
  /\ formats = <<>>
  /\ gatekeeper = "default"
  /\ runs = <<>>

\* an application takes the free selection and advertises its targets
Advertise ==
  /\ targets = <<>> /\ runs = <<>>
  /\ \E tg \in SeqsUpTo(Atoms, MaxTargets) :
       /\ tg # <<>>
       /\ targets' = tg
  /\ UNCHANGED <<atoms_cache, formats, gatekeeper, runs>>
  /\ UNCHANGED xvars
  /\ UNCHANGED cvars
  /\ UNCHANGED lvars

\* the owner gives the selection up; the catalogs built for it are dropped
Release ==
  /\ runs # <<>>
  /\ targets' = <<>>
  /\ formats' = <<>>
  /\ runs' = <<>>
  /\ UNCHANGED <<atoms_cache, gatekeeper>>
  /\ UNCHANGED xvars
  /\ UNCHANGED cvars
  /\ UNCHANGED lvars

\* extract_clipboard_content on the content advertised: the catalog is built,
\* the Gatekeeper asked, the content extracted
Resolve ==
  /\ Len(runs) < MaxRuns
  /\ LET r == GetAvailableFormats(targets, atoms_cache) IN
     /\ formats' = r.formats
     /\ atoms_cache' = r.cache
     /\ runs' = Append(runs, Resolution(r.formats, custom_formats, max_size,
                                        gatekeeper))
  /\ UNCHANGED <<targets, gatekeeper>>
  /\ UNCHANGED xvars
  /\ UNCHANGED cvars
  /\ UNCHANGED lvars

(* --------------------- the listener and its thread --------------------- *)
\* the listener before spawn: no thread, no stream
Unspawned ==
  /\ listener = "idle"
  /\ thread = "none"
  /\ stop = FALSE
  /\ monitor = "ok"
  /\ events = 0
  /\ board = EmptyClip
  /\ lock = NoHolder
  /\ registry = {}
  /\ stream = [id \in StreamIds |-> "none"]
  /\ chan = [id \in StreamIds |-> NoChannel]
  /\ published = <<>>
  /\ changes = 0
  /\ cycles = 0
  /\ taken = [id \in StreamIds |-> 0]

\* the thread is inside observe
InLoop == thread \in {"top", "polling", "extracting", "sending"}

\* the contents the clipboard takes while the listener lives
LoopClips ==
  { "A" :> Bytes(SizeLimit),
    "TEXT" :> Str(1),
    "TEXT" :> Unreadable,
    "PNG" :> Bytes(SizeLimit + Excess),
    "PNG" :> Bytes(0) }

\* ClipboardEventListenerBuilder::spawn has built BodySenders and calls
\* Driver::new
LoopInit ==
  /\ platform \in Platforms
  /\ custom_formats = <<>>
  /\ max_size = {SizeLimit}
  /\ clip = EmptyClip
  /\ incr = FALSE
  /\ fault = "none"
  /\ phase = "loop"
  /\ verdict = "none"
  /\ ops = <<>>
  /\ wrapper = "none"
  /\ sent = <<>>
  /\ listener = "spawning"
  /\ thread = "none"
  /\ stop = FALSE
  /\ monitor = "ok"
  /\ events = 0
  /\ board = EmptyClip
  /\ lock = NoHolder
  /\ registry = {}
  /\ stream = [id \in StreamIds |-> "none"]
  /\ chan = [id \in StreamIds |-> NoChannel]
  /\ published = <<>>
  /\ changes = 0
  /\ cycles = 0
  /\ taken = [id \in StreamIds |-> 0]
  /\ NoRead
  /\ NoCatalog

\* faulty variant of Rendezvous: no driver waits for the init signal
Rendezvous_Never(p) == FALSE

\* Driver::new blocks on init_rx.recv() on X11 and Win32; the macOS driver
\* returns as soon as the thread is spawned
Rendezvous(p) == p # "macos"

\* Driver::new: std::thread::spawn
DriverNew ==
  /\ listener = "spawning" /\ thread = "none"
  /\ thread' = "constructing"
  /\ listener' = IF Rendezvous(platform) THEN "spawning" ELSE "running"
  /\ UNCHANGED kvars
  /\ UNCHANGED xvars
  /\ UNCHANGED cvars
  /\ UNCHANGED <<stop, monitor, events, board, lock, registry, stream, chan,
                 published, changes, cycles, taken>>

\* the spawned closure: the observer's constructor, then init_tx.send, which
\* the blocked Driver::new receives; OSXObserver::new cannot fail
ObserverNew ==
  /\ thread = "constructing"
  /\ \E ok \in IF platform = "macos" THEN {TRUE} ELSE BOOLEAN :
       /\ thread' = IF ok THEN "top" ELSE "exited"
       /\ listener' = IF listener = "spawning"
                      THEN (IF ok THEN "running" ELSE "failed")
                      ELSE listener
  /\ UNCHANGED kvars
  /\ UNCHANGED xvars
  /\ UNCHANGED cvars
  /\ UNCHANGED <<stop, monitor, events, board, lock, registry, stream, chan,
                 published, changes, cycles, taken>>

\* faulty variant of StopSignalled: the loop does not look at the flag
StopSignalled_Never == FALSE

\* stop_signal.load(Ordering::Relaxed) in the condition of the loop
StopSignalled == stop

\* the head of the loop in observe: the stop flag, then the monitor
\* (poll_for_event, Monitor::try_recv, changeCount against last_count)
ObserveTop ==
  /\ thread = "top"
  /\ IF StopSignalled
     THEN /\ thread' = "exited"
          /\ UNCHANGED <<sent, events, cycles>>
     ELSE IF monitor = "failed"
     THEN /\ sent' = PublishErr("MonitorFailed")
          /\ thread' = "sending"
          /\ UNCHANGED <<events, cycles>>
     ELSE /\ events > 0
          /\ events' = IF platform = "macos" THEN 0 ELSE events - 1
          /\ cycles' = cycles + 1
          /\ thread' = "polling"
          /\ UNCHANGED sent
  /\ UNCHANGED kvars
  /\ UNCHANGED xvars
  /\ UNCHANGED <<platform, custom_formats, max_size, clip, incr, fault, phase,
                 verdict, ops, wrapper>>
  /\ UNCHANGED <<listener, stop, monitor, board, lock, registry, stream, chan,
                 published, changes, taken>>

\* the wait loops of request_property and read_property_data take every
\* queued event from the connection and drop the ones they do not wait for
EventsAfterRead(p, n) == IF p = "linux" THEN 0 ELSE n

\* the extraction requested the content of some format
ReadsContent(o) == \E i \in 1..Len(o) : o[i] \notin {"catalog", "gate"}

\* poll_clipboard begins: the catalog of what the clipboard holds now
PollCatalog ==
  /\ thread = "polling"
  /\ clip' = board
  /\ events' = EventsAfterRead(platform, events)
  /\ thread' = "extracting"
  /\ UNCHANGED kvars
  /\ UNCHANGED xvars
  /\ UNCHANGED <<platform, custom_formats, max_size, incr, fault, phase,
                 verdict, ops, wrapper, sent>>
  /\ UNCHANGED <<listener, stop, monitor, board, lock, registry, stream, chan,
                 published, changes, cycles, taken>>

\* poll_clipboard ends: the gatekeeper and the extraction by priority; observe
\* then holds the outcome (sent is empty for Ok(None))
Extract ==
  /\ thread = "extracting"
  /\ \E allow \in BOOLEAN :
       LET r == Poll(platform, clip, incr, fault, custom_formats, max_size, allow) IN
       /\ verdict' = IF GateCalled(r.x.ops) THEN (IF allow THEN "allow" ELSE "veto")
                     ELSE "none"
       /\ ops' = r.x.ops
       /\ wrapper' = r.x.w
       /\ sent' = r.pub
       /\ thread' = "sending"
       /\ events' = IF ReadsContent(r.x.ops) THEN EventsAfterRead(platform, events)
                     ELSE events
  /\ UNCHANGED kvars
  /\ UNCHANGED xvars
  /\ UNCHANGED <<platform, custom_formats, max_size, clip, incr, fault, phase>>
  /\ UNCHANGED <<listener, stop, monitor, board, lock, registry, stream, chan,
                 published, changes, cycles, taken>>

\* faulty variant of SendAllEnabled: a send that waits for room in every queue
SendAllEnabled_Blocking == lock = NoHolder /\ \A id \in registry : ~chan[id].parked

\* send_all proceeds once it has the mutex
SendAllEnabled == lock = NoHolder

\* faulty variant of AfterSend: a monitor failure is retried
AfterSend_Retry(kind) == "top"

\* faulty variant of AfterSend: a read error ends the loop
AfterSend_ErrFatal(kind) == IF kind = "Ok" THEN "top" ELSE "broken"

\* observe after send_all: break on a monitor failure, else the next iteration
AfterSend(kind) == IF kind = "MonitorFailed" THEN "broken" ELSE "top"

\* the iteration is over: what poll_clipboard returned goes out of scope
EndCycle ==
  /\ clip' = EmptyClip
  /\ verdict' = "none"
  /\ ops' = <<>>
  /\ wrapper' = "none"
  /\ sent' = <<>>
  /\ UNCHANGED kvars
  /\ UNCHANGED xvars
  /\ UNCHANGED <<platform, custom_formats, max_size, incr, fault, phase>>

\* body_senders.send_all(result)
SendAllStep ==
  /\ thread = "sending"
  /\ sent # <<>>
  /\ SendAllEnabled
  /\ Len(published) < MaxChanges + 1
  /\ chan' = SendAll(chan, registry, Item(Len(published) + 1, ResultKind(sent)))
  /\ published' = Append(published, ResultKind(sent))
  /\ thread' = AfterSend(ResultKind(sent))
  /\ EndCycle
  /\ UNCHANGED <<listener, stop, monitor, events, board, lock, registry, stream,
                 changes, cycles, taken>>

\* the arm Ok(None) => {} of observe: skipped content, nothing is sent
SkipCycle ==
  /\ thread = "sending"
  /\ sent = <<>>
  /\ thread' = "top"
  /\ EndCycle
  /\ UNCHANGED lvarsButThread

(* ------------------------------ streams -------------------------------- *)
\* faulty variant of NextId: the id of a dropped stream is handed out again
NextId_Reuse ==
  LET free == {id \in StreamIds : stream[id] \in {"none", "disposed"}} IN
  IF free = {} THEN MaxStreams + 1 ELSE CHOOSE id \in free : \A j \in free : id <= j

\* the StreamId that new_stream hands out next (id.fetch_add(1)), counted
\* from 1
NextId == Cardinality({id \in StreamIds : stream[id] # "none"}) + 1

\* new_stream: mpsc::channel(buffer), then register inserts the sender under
\* the mutex
NewStream ==
  /\ listener = "running"
  /\ NextId \in StreamIds
  /\ lock = NoHolder
  /\ chan' = [chan EXCEPT ![NextId] = Channel(Buffer)]
  /\ registry' = Register(registry, NextId)
  /\ stream' = [stream EXCEPT ![NextId] = "live"]
  /\ UNCHANGED kvars
  /\ UNCHANGED xvars
  /\ UNCHANGED cvars
  /\ UNCHANGED <<listener, thread, stop, monitor, events, board, lock,
                 published, changes, cycles, taken>>

\* the holders of the Arc<BodySenders>: the listener, the observer thread and
\* the drop_handle of every stream not yet dropped
Holders ==
  (IF listener \in {"spawning", "running", "dropping"} THEN 1 ELSE 0)
  + (IF thread \in {"constructing", "top", "polling", "extracting", "sending"} THEN 1 ELSE 0)
  + Cardinality({id \in StreamIds : stream[id] \in {"live", "ended", "closed", "drained", "unregistering"}})

\* the channel has no sender left: its entry was removed from the map, or the
\* map was dropped with the last Arc
SendersGone(id) == id \notin registry \/ Holders = 0

\* what Receiver::poll_next answers
PollYield(id) ==
  IF chan[id].buf # <<>> THEN "Item"
  ELSE IF SendersGone(id) THEN "None"
  ELSE "Pending"

\* ClipboardStream::poll_next
PollNext(id) ==
  /\ stream[id] = "live"
  /\ PollYield(id) # "Pending"
  /\ IF PollYield(id) = "Item"
     THEN /\ chan' = [chan EXCEPT ![id] = Receive(chan[id])]
          /\ taken' = [taken EXCEPT ![id] = Head(chan[id].buf).seq]
          /\ UNCHANGED stream
     ELSE /\ stream' = [stream EXCEPT ![id] = "ended"]
          /\ UNCHANGED <<chan, taken>>
  /\ UNCHANGED kvars
  /\ UNCHANGED xvars
  /\ UNCHANGED cvars
  /\ UNCHANGED <<listener, thread, stop, monitor, events, board, lock, registry,
                 published, changes, cycles>>

\* Drop for ClipboardStream: body_rx.close()
StreamClose(id) ==
  /\ stream[id] \in {"live", "ended"}
  /\ chan' = [chan EXCEPT ![id] = Close(chan[id])]
  /\ stream' = [stream EXCEPT ![id] = "closed"]
  /\ taken' = [taken EXCEPT ![id] = 0]
  /\ UNCHANGED kvars
  /\ UNCHANGED xvars
  /\ UNCHANGED cvars
  /\ UNCHANGED <<listener, thread, stop, monitor, events, board, lock, registry,
                 published, changes, cycles>>

\* what Receiver::try_next answers: a message, Ok(None) on a closed and empty
\* channel, Err on an empty channel that is still open
TryNext(c) ==
  IF c.buf # <<>> THEN "Some"
  ELSE IF ~c.open THEN "None"
  ELSE "Err"

\* Drop for ClipboardStream: one turn of the try_next loop; Ok(Some(_)) and
\* Err(_) go round again, Ok(None) leaves the loop
StreamDrain(id) ==
  /\ stream[id] = "closed"
  /\ chan' = IF TryNext(chan[id]) = "Some"
             THEN [chan EXCEPT ![id] = Receive(chan[id])]
             ELSE chan
  /\ stream' = IF TryNext(chan[id]) = "None"
               THEN [stream EXCEPT ![id] = "drained"]
               ELSE stream
  /\ UNCHANGED kvars
  /\ UNCHANGED xvars
  /\ UNCHANGED cvars
  /\ UNCHANGED <<listener, thread, stop, monitor, events, board, lock, registry,
                 published, changes, cycles, taken>>

\* Drop for ClipboardStream: drop_handle.drop, unregister takes the mutex
UnregisterLock(id) ==
  /\ stream[id] = "drained"
  /\ lock = NoHolder
  /\ lock' = id
  /\ stream' = [stream EXCEPT ![id] = "unregistering"]
  /\ UNCHANGED kvars
  /\ UNCHANGED xvars
  /\ UNCHANGED cvars
  /\ UNCHANGED <<listener, thread, stop, monitor, events, board, registry, chan,
                 published, changes, cycles, taken>>

\* faulty variant of AfterUnregister: the guard outlives unregister
AfterUnregister_Held(id) == id

\* unregister returns: its MutexGuard goes out of scope
AfterUnregister(id) == NoHolder

\* unregister removes the entry and releases the mutex
UnregisterDone(id) ==
  /\ stream[id] = "unregistering"
  /\ registry' = Unregister(registry, id)
  /\ lock' = AfterUnregister(id)
  /\ stream' = [stream EXCEPT ![id] = "disposed"]
  /\ UNCHANGED kvars
  /\ UNCHANGED xvars
  /\ UNCHANGED cvars
  /\ UNCHANGED <<listener, thread, stop, monitor, events, board, chan,
                 published, changes, cycles, taken>>

(* ------------------------- disposal, environment ----------------------- *)
\* Drop for ClipboardEventListener, Drop for Driver: stop.store(true)
DriverDropStop ==
  /\ listener = "running"
  /\ listener' = "dropping"
  /\ stop' = TRUE
  /\ UNCHANGED kvars
  /\ UNCHANGED xvars
  /\ UNCHANGED cvars
  /\ UNCHANGED <<thread, monitor, events, board, lock, registry, stream, chan,
                 published, changes, cycles, taken>>

\* faulty variant of Joined: the drop does not wait for the thread
Joined_NoWait == TRUE

\* handle.join() returns once the thread has left its closure
Joined == thread \in {"exited", "broken"}

\* Drop for Driver: handle.join()
DriverDropJoin ==
  /\ listener = "dropping"
  /\ Joined
  /\ listener' = "dropped"
  /\ UNCHANGED kvars
  /\ UNCHANGED xvars
  /\ UNCHANGED cvars
  /\ UNCHANGED <<thread, stop, monitor, events, board, lock, registry, stream,
                 chan, published, changes, cycles, taken>>

\* another application replaces the clipboard content while the observer is
\* in its loop; the platform queues a notification (bumps changeCount)
ChangeClipboard ==
  /\ InLoop
  /\ changes < MaxChanges
  /\ \E c \in LoopClips : board' = c
  /\ events' = events + 1
  /\ changes' = changes + 1
  /\ UNCHANGED kvars
  /\ UNCHANGED xvars
  /\ UNCHANGED cvars
  /\ UNCHANGED <<listener, thread, stop, monitor, lock, registry, stream, chan,
                 published, cycles, taken>>

\* the change-notification mechanism breaks (the X connection, the monitor
\* window); the pasteboard's counter cannot.  Only the head of the loop asks
\* the monitor, so the failure is placed where it is seen
MonitorFails ==
  /\ thread = "top"
  /\ platform # "macos"
  /\ monitor = "ok"
  /\ monitor' = "failed"
  /\ UNCHANGED kvars
  /\ UNCHANGED xvars
  /\ UNCHANGED cvars
  /\ UNCHANGED <<listener, thread, stop, events, board, lock, registry, stream,
                 chan, published, changes, cycles, taken>>

ObserverStep ==
  ObserverNew \/ ObserveTop \/ PollCatalog \/ Extract \/ SendAllStep \/ SkipCycle
MutexRelease == \E id \in StreamIds : UnregisterDone(id)

LoopNext ==
  \/ DriverNew
  \/ ObserverNew
  \/ ObserveTop
  \/ PollCatalog
  \/ Extract
  \/ SendAllStep
  \/ SkipCycle
  \/ NewStream
  \/ \E id \in StreamIds : PollNext(id)
  \/ \E id \in StreamIds : StreamClose(id)
  \/ \E id \in StreamIds : StreamDrain(id)
  \/ \E id \in StreamIds : UnregisterLock(id)
  \/ \E id \in StreamIds : UnregisterDone(id)
  \/ DriverDropStop
  \/ DriverDropJoin
  \/ ChangeClipboard
  \/ MonitorFails

LoopSpec == LoopInit /\ [][LoopNext]_vars

\* the observer thread runs, a thread holding the mutex releases it, and a
\* join returns when the thread is gone; consumers and the environment owe
\* nothing
LiveSpec ==
  /\ LoopSpec
  /\ WF_vars(DriverNew)
  /\ WF_vars(ObserverStep)
  /\ WF_vars(MutexRelease)
  /\ WF_vars(DriverDropJoin)

\* as LiveSpec, and a thread that drops a stream runs its Drop to the end:
\* the drain loop and the call of unregister are not abandoned half way
DisposeLiveSpec ==
  /\ LiveSpec
  /\ \A id \in StreamIds : WF_vars(StreamDrain(id))
  /\ \A id \in StreamIds : WF_vars(UnregisterLock(id))

\* as LiveSpec, and every consumer keeps polling its stream: a poll that can
\* yield an item or the end of the stream is made
ConsumeLiveSpec ==
  /\ LiveSpec
  /\ \A id \in StreamIds : WF_vars(PollNext(id))

\* the listener without subscribers: spawn, the observer's loop, the changes
\* of the clipboard, the monitor's failure and the listener's disposal.  The
\* observer reads nothing of a stream (send_all only takes the registry's
\* mutex), so what it does is settled here
ObserveNext ==
  \/ DriverNew
  \/ ObserverNew
  \/ ObserveTop
  \/ PollCatalog
  \/ Extract
  \/ SendAllStep
  \/ SkipCycle
  \/ DriverDropStop
  \/ DriverDropJoin
  \/ ChangeClipboard
  \/ MonitorFails

ObserveSpec == LoopInit /\ [][ObserveNext]_vars

\* ObserveSpec with the observer thread running
ObserveLiveSpec == ObserveSpec /\ WF_vars(ObserverStep)

(* ---------------------------- one cycle -------------------------------- *)
Init ==
  /\ platform \in Platforms
  /\ custom_formats \in CustomLists
  /\ max_size \in {NoLimit, {SizeLimit}}
  /\ clip = EmptyClip
  /\ incr = FALSE
  /\ fault = "none"
  /\ phase = "replacing"
  /\ verdict = "none"
  /\ ops = <<>>
  /\ wrapper = "none"
  /\ sent = <<>>
  /\ Unspawned
  /\ NoRead
  /\ NoCatalog

\* another application takes the clipboard and advertises its formats; when
\* the catalog cannot be built nothing of the snapshot is observed, so it is
\* left empty
SetClipboard ==
  /\ phase = "replacing"
  /\ \E c \in ClipsOf(platform) :
       \E f \in IF c = EmptyClip THEN {"none", "catalog"} ELSE {"none"} :
         \E i \in IF platform = "linux" /\ DOMAIN c \cap {"A", "B", "PNG"} # {}
                  THEN BOOLEAN ELSE {FALSE} :
           /\ clip' = c
           /\ incr' = i
           /\ fault' = f
  /\ phase' = "changed"
  /\ UNCHANGED kvars
  /\ UNCHANGED xvars
  /\ UNCHANGED <<platform, custom_formats, max_size, verdict, ops, wrapper, sent>>
  /\ UNCHANGED lvars

\* one iteration of observe that finds the notification: poll, then send_all
Observe ==
  /\ phase = "changed"
  /\ \E allow \in BOOLEAN :
       LET r == Poll(platform, clip, incr, fault, custom_formats, max_size, allow) IN
       /\ verdict' = IF GateCalled(r.x.ops) THEN (IF allow THEN "allow" ELSE "veto")
                     ELSE "none"
       /\ ops' = r.x.ops
       /\ wrapper' = r.x.w
       /\ sent' = r.pub
  /\ phase' = "done"
  /\ UNCHANGED kvars
  /\ UNCHANGED xvars
  /\ UNCHANGED <<platform, custom_formats, max_size, clip, incr, fault>>
  /\ UNCHANGED lvars

\* the content is replaced: what the previous cycle recorded is discarded
BeginChange ==
  /\ phase = "done"
  /\ clip' = EmptyClip
  /\ incr' = FALSE
  /\ fault' = "none"
  /\ phase' = "replacing"
  /\ verdict' = "none"
  /\ ops' = <<>>
  /\ wrapper' = "none"
  /\ sent' = <<>>
  /\ UNCHANGED kvars
  /\ UNCHANGED xvars
  /\ UNCHANGED <<platform, custom_formats, max_size>>
  /\ UNCHANGED lvars

Next == SetClipboard \/ Observe \/ BeginChange

Spec == Init /\ [][Next]_vars

(* ---------------------- reads on one X11 connection -------------------- *)
\* the X11 observer's connection is set up, nothing has been read yet
ReadInit ==
  /\ platform = "linux"
  /\ custom_formats = <<>>
  /\ max_size = NoLimit
  /\ clip = EmptyClip
  /\ incr = FALSE
  /\ fault = "none"
  /\ phase = "read"
  /\ verdict = "none"
  /\ ops = <<>>
  /\ wrapper = "none"
  /\ sent = <<>>
  /\ Unspawned
  /\ NoRead
  /\ NoCatalog

ReadNext ==
  \/ ReadStart
  \/ RequestWait
  \/ PeekLen
  \/ Probe
  \/ Peek
  \/ IncrStep
  \/ OwnerRefuses
  \/ OwnerStagesLength
  \/ OwnerStagesData
  \/ OwnerSendsChunk
  \/ Unrelated
  \/ Tick

ReadSpec == ReadInit /\ [][ReadNext]_vars

\* the reading thread runs, and time passes
ReadLiveSpec == ReadSpec /\ WF_vars(ReaderStep) /\ WF_vars(Tick)

(* ------------------- catalogs of one X11 observer ---------------------- *)
\* LinuxObserver::new has registered the custom formats and cached their names
CatalogInit ==
  /\ platform = "linux"
  /\ custom_formats \in {<<>>, <<"A">>}
  /\ max_size = NoLimit
  /\ clip = EmptyClip
  /\ incr = FALSE
  /\ fault = "none"
  /\ phase = "catalog"
  /\ verdict = "none"
  /\ ops = <<>>
  /\ wrapper = "none"
  /\ sent = <<>>
  /\ Unspawned
  /\ NoRead
  /\ targets = <<>>
  /\ atoms_cache = {custom_formats[i] : i \in 1..Len(custom_formats)}
  /\ formats = <<>>
  /\ gatekeeper \in Gatekeepers
  /\ runs = <<>>

CatalogNext == Advertise \/ Resolve \/ Release

CatalogSpec == CatalogInit /\ [][CatalogNext]_vars
(* ===================== properties of the cycle ========================= *)
Done == phase = "done"
PublishedOk == sent # <<>> /\ sent[1].ok
Monitored == {custom_formats[i] : i \in 1..Len(custom_formats)}

\* the documented priority order over the formats each platform knows
PriorityKeys ==
  custom_formats \o
  (IF platform = "linux" THEN <<"PNG", "FILES", "HTML", "TEXT">>
   ELSE IF platform = "win" THEN <<"PNG", "DIBV5", "DIB", "FILES", "HTML", "TEXT">>
   ELSE <<"PNG", "TIFF", "FILES", "HTML", "TEXT">>)

KindOfKey(k) ==
  IF k \in Monitored THEN "Custom"
  ELSE IF k = "PNG" THEN "PngImage"
  ELSE IF k \in RawKeys THEN "RawImage"
  ELSE IF k = "FILES" THEN "FileList"
  ELSE IF k = "HTML" THEN "Html"
  ELSE "PlainText"

\* positions of the priority order whose format is in the catalog
PresentAt == {i \in 1..Len(PriorityKeys) : PriorityKeys[i] \in DOMAIN clip}
HasTop == PresentAt # {}
TopAt == CHOOSE i \in PresentAt : \A j \in PresentAt : i <= j
TopKey == PriorityKeys[TopAt]
KeyOfTop == IF HasTop THEN TopKey ELSE "none"

\* a present format that is readable, non-empty and within the limit
HealthyVal(v) ==
  \/ v.t = "bytes" /\ v.size > 0 /\ ~TooLarge(v.size, max_size)
  \/ v.t = "str" /\ v.size > 0
  \/ v.t = "lines" /\ PathsFromUriList(v.lines) # <<>>
  \/ v.t = "hint" /\ v.v > 0 /\ ~TooLarge(v.v, max_size)
  \/ v.t = "short"
Healthy ==
  /\ fault = "none"
  /\ \A k \in DOMAIN clip : HealthyVal(clip[k])
  /\ incr => ~TooLarge(IncrMarkerBytes, max_size)

\* C1: when every present format is readable, non-empty and within the size
\* limit, the cycle publishes exactly the highest-priority kind present
\* (custom > PNG > raw image > file list > HTML > plain text).
C1_PriorityOrder ==
  (Done /\ verdict = "allow" /\ Healthy /\ HasTop) =>
    /\ PublishedOk
    /\ Len(sent) = 1
    /\ sent[1].body.tag = KindOfKey(TopKey)

C1_Witness ==
  /\ Done /\ verdict = "allow" /\ Healthy
  /\ Cardinality({KindOfKey(PriorityKeys[i]) : i \in PresentAt}) = 3
  /\ PublishedOk /\ sent[1].body.tag = "RawImage"

\* the monitored custom formats that the catalog contains
PresentCustom == Monitored \cap DOMAIN clip

RECURSIVE FirstWithData(_)
FirstWithData(fs) ==
  IF fs = <<>> THEN <<>>
  ELSE IF Head(fs) \in DOMAIN clip /\ (platform = "macos" => clip[Head(fs)].t # "unreadable")
    THEN <<Head(fs)>>
  ELSE FirstWithData(Tail(fs))

C3_SizeGate ==
  (Done /\ PublishedOk /\ sent[1].body.tag \in {"Custom", "PngImage", "RawImage"}) =>
    ~TooLarge(sent[1].body.size, max_size)

\* the kinds whose read is subject to the size limit
SizeGated(k) == KindOfKey(k) \in {"Custom", "PngImage", "RawImage"}
HasBytes(v) == v.t \in {"bytes", "corrupt"}
Oversized(v) == HasBytes(v) /\ TooLarge(v.size, max_size)

\* positions below the top whose format is healthy, and the first of them
EligibleBelow == {j \in PresentAt : j > TopAt /\ HealthyVal(clip[PriorityKeys[j]])
                                     /\ KindOfKey(PriorityKeys[j]) # KindOfKey(TopKey)}
NextEligible == PriorityKeys[CHOOSE j \in EligibleBelow : \A i \in EligibleBelow : j <= i]

UsableHint == platform = "linux" /\ IsSome(max_size) /\ "LENGTH" \in DOMAIN clip
                /\ clip["LENGTH"].t = "hint"
HintFails == platform = "linux" /\ IsSome(max_size) /\ "LENGTH" \in DOMAIN clip
               /\ clip["LENGTH"].t = "unreadable"
ReportedSize(k) ==
  IF UsableHint THEN clip["LENGTH"].v
  ELSE IF platform = "linux" THEN GetPropertySize(clip, incr, k)
  ELSE clip[k].size
ReportedOver(k) ==
  /\ HasBytes(clip[k]) \/ UsableHint
  /\ ~HintFails
  /\ TooLarge(ReportedSize(k), max_size)

\* a present format that would yield content if it were read
YieldsContent(v) ==
  \/ HasBytes(v) /\ v.size > 0
  \/ v.t = "str" /\ v.size > 0
  \/ v.t = "lines" /\ PathsFromUriList(v.lines) # <<>>

LastOp == ops[Len(ops)]

C5_OversizedImageSilent ==
  (Done /\ fault = "none" /\ IsSome(max_size) /\ HasTop
        /\ (\A k \in DOMAIN clip : clip[k].t # "unreadable")
        /\ KindOfKey(TopKey) \in {"PngImage", "RawImage"}
        /\ Oversized(clip[TopKey])) =>
    sent = <<>>

\* content of size 0
EmptyVal(v) ==
  \/ HasBytes(v) /\ v.size = 0
  \/ v.t = "str" /\ v.size = 0
  \/ v.t = "lines" /\ v.lines = <<>>


\* the extractor's emptiness checks, per platform: on X11 only the size check
\* of a custom or PNG format looks at the size
FoundEmpty(k) ==
  IF platform = "linux"
  THEN /\ IsSome(max_size) /\ SizeGated(k) /\ ~HintFails
       /\ HasBytes(clip[k]) \/ UsableHint
       /\ ReportedSize(k) = 0
  ELSE IF platform = "win" THEN EmptyVal(clip[k])
  ELSE (EmptyVal(clip[k]) /\ k # "FILES") \/ clip[k].t = "noitems"

\* C6 (as stated): a format found empty at some tier is treated as absent and
\* resolution continues to the next tier present in the catalog.  Stated for
\* the formats whose emptiness the extractor looks at.
C6_EmptyContinues ==
  (Done /\ verdict = "allow" /\ fault = "none" /\ HasTop /\ EmptyVal(clip[TopKey])
        /\ FoundEmpty(TopKey) /\ EligibleBelow # {}) =>
    /\ PublishedOk
    /\ sent[1].body.tag = KindOfKey(NextEligible)

\* C6 (amended): a format the extractor finds empty ends the cycle: nothing is
\* published, no lower-priority tier is read and no error is surfaced; only a
\* file list without paths on macOS is passed over, the next tier being read.
C6_EmptyEndsCycle ==
  /\ (Done /\ verdict = "allow" /\ fault = "none" /\ HasTop /\ FoundEmpty(TopKey)) =>
       /\ wrapper = "EmptyContent"
       /\ sent = <<>>
       /\ LastOp \in {TopKey, "LENGTH"}
  /\ (Done /\ wrapper = "EmptyContent") => sent = <<>>
  /\ (Done /\ verdict = "allow" /\ fault = "none" /\ platform = "macos" /\ HasTop
           /\ TopKey = "FILES" /\ clip["FILES"].t = "lines"
           /\ PathsFromUriList(clip["FILES"].lines) = <<>>
           /\ DOMAIN clip \cap StrKeys # {}) =>
       /\ LastOp \in StrKeys
       /\ wrapper # "NoMatchingFormat"

C6_Witness ==
  /\ Done /\ verdict = "allow" /\ HasTop /\ EmptyVal(clip[TopKey]) /\ FoundEmpty(TopKey)
  /\ EligibleBelow # {}
  /\ wrapper = "EmptyContent" /\ sent = <<>>

\* C7: no cycle publishes an Ok body whose payload (custom data, image bytes,
\* HTML, text) is empty, with or without a size limit.
C7_NoEmptyPayload ==
  (Done /\ PublishedOk
        /\ sent[1].body.tag \in {"Custom", "PngImage", "RawImage", "Html", "PlainText"}) =>
    sent[1].body.size > 0

Count(o, x) == Cardinality({i \in 1..Len(o) : o[i] = x})
GateOnceBeforeReads ==
  /\ Count(ops, "gate") = 1 /\ Count(ops, "catalog") = 1
  /\ ops[1] = "catalog" /\ ops[2] = "gate"
  /\ verdict \in {"allow", "veto"}
  /\ verdict = "veto" => (sent = <<>> /\ Len(ops) = 2)

\* C8 (as stated): in every cycle the gatekeeper is invoked exactly once, after
\* the catalog is built and before any content is read; on a veto nothing is
\* published and no content is read.
C8_GateEveryCycle == Done => GateOnceBeforeReads

\* C8 (amended): in every cycle whose catalog is built the gatekeeper is
\* invoked exactly once, after the catalog and before any content is read, and
\* on a veto nothing is published and no content is read; a cycle whose catalog
\* cannot be built publishes a read error without consulting the gatekeeper.
C8_GateOncePerCatalog ==
  Done => IF fault = "catalog"
          THEN ops = <<>> /\ verdict = "none" /\ sent = PublishErr("ReadError")
          ELSE GateOnceBeforeReads

C8_Witness ==
  /\ Done /\ verdict = "veto" /\ sent = <<>> /\ ops = <<"catalog", "gate">>
  /\ "TEXT" \in DOMAIN clip /\ HealthyVal(clip["TEXT"])

\* the paths the file-list format yields
FileEntries ==
  IF "FILES" \in DOMAIN clip /\ clip["FILES"].t = "lines"
  THEN (IF platform = "win" THEN clip["FILES"].lines
        ELSE PathsFromUriList(clip["FILES"].lines))
  ELSE <<>>
OneEntry == Len(FileEntries) = 1

C9_WitnessNoPath ==
  /\ Done /\ PublishedOk /\ sent[1].body.tag = "PngImage"
  /\ Len(FileEntries) = 2 /\ sent[1].body.path = NoPath

\* C10: when an image and a one-entry file list are both present and the
\* processing of the image goes wrong, the cycle publishes the single-item
\* FileList instead.
C10_FallbackToFileList ==
  (Done /\ verdict = "allow" /\ fault = "none" /\ HasTop
        /\ KindOfKey(TopKey) \in {"PngImage", "RawImage"}
        /\ clip[TopKey].t \in {"unreadable", "corrupt"}
        /\ OneEntry) =>
    sent = Publish(NewFileList(FileEntries))

\* the limits a caller may configure
Limits == {{n} : n \in 0..(SizeLimit + Excess)}
\* what the cycle does with the snapshot under the limit m
PollUnder(m) ==
  Poll(platform, clip, incr, fault, custom_formats, m, verdict # "veto")
IsText(x) == x.w = "Some" /\ x.body.tag \in {"Html", "PlainText"}
\* the kind selected from the catalog is HTML or plain text
TextSelected ==
  \/ HasTop /\ TopKey \in StrKeys
  \/ IsText(PollUnder(NoLimit).x)

\* C25: when the kind selected from the catalog is HTML or plain text, the
\* cycle does under every limit what it does with no limit (the same reads,
\* the same outcome, the same published result), whatever the length of the
\* text, and that is what the observer with its configured limit did.
C25_TextNotGated ==
  (Done /\ fault = "none" /\ TextSelected) =>
    /\ \A m \in Limits : PollUnder(m) = PollUnder(NoLimit)
    /\ sent = PollUnder(NoLimit).pub
    /\ wrapper = PollUnder(NoLimit).x.w
    /\ ops = PollUnder(NoLimit).x.ops

C25_Witness ==
  /\ Done /\ verdict = "allow" /\ max_size = {SizeLimit}
  /\ platform = "linux" /\ "LENGTH" \in DOMAIN clip
  /\ "TEXT" \in DOMAIN clip /\ clip["TEXT"] = Str(SizeLimit + Excess)
  /\ sent = Publish(NewText(SizeLimit + Excess))

\* the kinds a caller can put on the clipboard alone: plain text, HTML, one
\* file path, PNG bytes, a monitored custom format
SettableKeys == {"TEXT", "HTML", "FILES", "PNG"} \cup Monitored
\* the clipboard holds non-empty content of the one kind k (on X11 the owner
\* may offer the LENGTH target beside it)
HoldsOnly(k) ==
  /\ k \in DOMAIN clip /\ DOMAIN clip \subseteq {k, "LENGTH"}
  /\ IF k = "FILES" THEN clip[k] = Lines(<<"p">>) ELSE YieldsContent(clip[k])
\* the Body that carries the content of kind k as it was set
BodyOfContent(k) ==
  IF k \in Monitored THEN NewCustom(k, clip[k].size)
  ELSE IF k = "PNG" THEN NewPng(clip[k].size, NoPath)
  ELSE IF k = "FILES" THEN NewFileList(<<"p">>)
  ELSE IF k = "HTML" THEN NewHtml(clip[k].size)
  ELSE NewText(clip[k].size)

LastPublished == published[Len(published)]
\* the n-th result as the queues hold it
ItemAt(n) == Item(n, published[n])
LastItem == ItemAt(Len(published))
\* a step that performs send_all
Sends == published' # published
Registered(id) == id \in registry

\* C11: one send_all appends the published result to the queue of every
\* registered stream that has capacity; a registered stream whose queue is
\* full keeps its queue as it was (the value is dropped for it), and so does
\* every stream that is not registered; the others are served all the same.
C11_FanOut ==
  [][Sends =>
       \A id \in StreamIds :
         IF Registered(id) /\ chan[id].open /\ ~chan[id].parked
         THEN chan'[id].buf = Append(chan[id].buf, LastItem')
         ELSE chan'[id] = chan[id]]_vars

C11_Witness ==
  /\ stream = [id \in StreamIds |-> "live"]
  /\ Len(published) = 3 /\ published[1] # published[2]
  /\ chan[1].buf = <<ItemAt(1), ItemAt(2)>> /\ chan[1].parked
  /\ chan[2].buf = <<ItemAt(2), ItemAt(3)>>

\* C12: whatever the consumers do (never polling, holding full queues, being
\* dropped meanwhile), a send_all the observer has reached completes and the
\* observer leaves it.
C12_SendAllCompletes == (thread = "sending" /\ sent # <<>>) ~> (thread # "sending")

C12_Witness ==
  /\ thread = "sending" /\ sent # <<>>
  /\ stream[1] = "unregistering" /\ lock = 1
  /\ stream[2] = "live" /\ chan[2].parked

\* C13: a stream whose disposal has completed is not in the registry, no later
\* send_all touches its channel, and a send_all performed after it still
\* serves every registered stream that has capacity.
C13_DisposedUnregistered ==
  /\ [](\A id \in StreamIds : stream[id] = "disposed" => ~Registered(id))
  /\ [][\A id \in StreamIds : stream[id] = "disposed" => chan'[id] = chan[id]]_vars
  /\ [][(Sends /\ \E d \in StreamIds : stream[d] = "disposed") =>
          \A id \in StreamIds :
            (Registered(id) /\ HasCapacity(chan[id])) =>
              chan'[id].buf = Append(chan[id].buf, LastItem')]_vars

C13_Witness ==
  /\ stream[1] = "disposed" /\ ~Registered(1) /\ chan[1].buf = <<>>
  /\ stream[2] = "live" /\ Len(published) = 2
  /\ chan[2].buf = <<ItemAt(2)>>

\* C14: disposing the listener sets the stop flag and joins the observer
\* thread: a disposal that has begun returns, the thread has then left its
\* closure, and no send_all is performed after the return.
C14_DisposalJoins ==
  /\ (listener = "dropping") ~> (listener = "dropped")
  /\ [](listener \in {"dropping", "dropped"} => stop)
  /\ [](listener = "dropped" => thread \in {"exited", "broken"})
  /\ [][listener = "dropped" => ~Sends]_vars

C14_Witness ==
  /\ listener = "dropped" /\ thread = "exited"
  /\ Len(published) = 2
  /\ stream[1] = "live" /\ chan[1].buf # <<>>

\* C15: once the listener is disposed, a live stream that has consumed its
\* buffered items is answered end-of-stream by its next poll, not Pending.
C15_EndOfStream ==
  \A id \in StreamIds :
    (listener = "dropped" /\ stream[id] = "live" /\ chan[id].buf = <<>>) =>
      PollYield(id) = "None"

\* what holds once Driver::new has returned an InitializationError
InitFailed ==
  /\ thread = "exited"
  /\ published = <<>>
  /\ cycles = 0
  /\ stream = [id \in StreamIds |-> "none"]

C16_WitnessOk ==
  /\ platform = "linux" /\ listener = "running" /\ thread = "polling"

\* C17: a failure of the change-notification mechanism is published as
\* Err(MonitorFailed) exactly once; it is the last item the observer
\* publishes, and the observer has left the loop for good.
C17_MonitorFailedOnce ==
  /\ Count(published, "MonitorFailed") <= 1
  /\ Count(published, "MonitorFailed") = 1 =>
       (LastPublished = "MonitorFailed" /\ thread = "broken")
  /\ thread = "broken" => (monitor = "failed" /\ Count(published, "MonitorFailed") = 1)
  /\ (monitor = "failed" /\ thread = "sending" /\ sent = PublishErr("MonitorFailed")) =>
       Count(published, "MonitorFailed") = 0

C17_Witness ==
  /\ thread = "broken" /\ listener = "running"
  /\ published = <<"Ok", "MonitorFailed">>

\* the content a healthy later change holds, and the body it resolves to
ReadableText == "TEXT" :> Str(1)

\* C18: a read error is passed to send_all as one Err item and the observer
\* goes on to its next iteration; every cycle publishes at most one item; a
\* later change with readable content resolves to Ok whatever was published
\* before.
C18_ReadErrorLocal ==
  /\ [][(thread = "sending" /\ sent = PublishErr("ReadError") /\ thread' # thread) =>
          (published' = Append(published, "ReadError") /\ thread' = "top")]_vars
  /\ [](Len(published) <= cycles + Count(published, "MonitorFailed"))
  /\ [][(thread = "extracting" /\ thread' # thread /\ clip = ReadableText
           /\ verdict' = "allow") =>
          sent' = Publish(NewText(1))]_vars

C18_Witness ==
  /\ published = <<"ReadError", "Ok">> /\ thread = "top"
  /\ changes = 2 /\ cycles = 2

\* the step that ends poll_clipboard
Resolves == thread = "extracting" /\ thread' # thread

\* C19 (as stated): the cycle publishes Err(NoMatchingFormat) exactly when the
\* gatekeeper accepted and the catalog contains none of the known kinds, and
\* the loop continues.
C19_OnlyWhenNoneKnown ==
  /\ [][Resolves => ((verdict' = "allow" /\ ~HasTop) <=>
                       sent' = PublishErr("NoMatchingFormat"))]_vars
  /\ [][(thread = "sending" /\ sent = PublishErr("NoMatchingFormat") /\ thread' # thread) =>
          thread' = "top"]_vars

\* C19 (amended): when the gatekeeper accepted and the catalog contains none
\* of the known kinds the cycle publishes Err(NoMatchingFormat), and the loop
\* continues; NoMatchingFormat is published only after the gatekeeper accepted
\* and when no known format of the catalog yields content: on X11 only when
\* none is in the catalog, on Win32 and macOS also when those in the catalog
\* cannot be read.
C19_WhenNothingYields ==
  /\ [][Resolves => ((verdict' = "allow" /\ ~HasTop) =>
                       sent' = PublishErr("NoMatchingFormat"))]_vars
  /\ [][Resolves => (sent' = PublishErr("NoMatchingFormat") =>
                       /\ verdict' = "allow"
                       /\ platform = "linux" => ~HasTop
                       /\ \A i \in PresentAt : ~YieldsContent(clip[PriorityKeys[i]]))]_vars
  /\ [][(thread = "sending" /\ sent = PublishErr("NoMatchingFormat") /\ thread' # thread) =>
          (thread' = "top" /\ LastPublished' = "NoMatchingFormat")]_vars

C19_Witness ==
  /\ published = <<"NoMatchingFormat", "Ok">> /\ thread = "top"
  /\ platform = "linux" /\ events = 0

\* C20: for the observers driven by queued notifications (X11, Win32), when
\* the running observer is back at the head of its loop with no notification
\* left, every change has had its own cycle.
C20_NoChangeLost ==
  (platform # "macos" /\ thread = "top" /\ ~stop /\ monitor = "ok" /\ events = 0) =>
    cycles = changes

(* ================= properties of the subscriber streams ================= *)
\* the items of a queue are results that were published, each at its place,
\* in the order of publication
InOrder(q) ==
  \A i \in 1..Len(q) :
    /\ q[i].seq \in 1..Len(published)
    /\ q[i] = ItemAt(q[i].seq)
    /\ i > 1 => q[i - 1].seq < q[i].seq

\* the stream yields an item in this step
Yields(id) ==
  /\ stream[id] = "live" /\ stream'[id] = "live"
  /\ published' = published
  /\ chan'[id] # chan[id]

\* C21: what a stream yields is the oldest item of its queue, which is a
\* published result placed after everything the stream yielded before; its
\* queue holds published results in the order of publication, all of them
\* placed after the last item yielded.  So the items a stream yields are a
\* subsequence of the published results, without duplicate or reordering.
C21_OrderPreserved ==
  /\ [](\A id \in StreamIds :
          stream[id] = "live" =>
            /\ InOrder(chan[id].buf)
            /\ taken[id] \in 0..Len(published)
            /\ chan[id].buf # <<>> => taken[id] < Head(chan[id].buf).seq)
  /\ [][\A id \in StreamIds :
          Yields(id) =>
            /\ chan[id].buf # <<>>
            /\ chan'[id].buf = Tail(chan[id].buf)
            /\ taken'[id] = Head(chan[id].buf).seq
            /\ taken'[id] > taken[id]
            /\ Head(chan[id].buf) = ItemAt(taken'[id])]_vars

C21_Witness ==
  /\ stream[1] = "live" /\ Len(published) = 3
  /\ taken[1] = 2 /\ chan[1].buf = <<ItemAt(3)>>
  /\ stream[2] = "live" /\ taken[2] = 0 /\ chan[2].buf = <<ItemAt(1), ItemAt(2)>>

\* the ids new_stream has returned so far
Returned == {id \in StreamIds : stream[id] # "none"}
\* new_stream returns id in this step
Creates(id) == stream'[id] = "live" /\ stream[id] \notin {"live", "ended"}

\* C22: the StreamId returned by new_stream was never returned before by this
\* listener and is greater than every id returned before, whether the streams
\* that got them are alive or dropped.
C22_FreshIncreasingIds ==
  [][\A id \in StreamIds :
       Creates(id) => (id \notin Returned /\ \A j \in Returned : j < id)]_vars

C22_Witness ==
  /\ stream[1] = "disposed" /\ stream[2] = "live"
  /\ Len(published) = 2 /\ taken[2] = 0 /\ chan[2].buf = <<>>

\* the streams that were created and whose drop has not completed
Alive == {id \in StreamIds : stream[id] \notin {"none", "disposed"}}

\* C23: the keys of the registry are the ids of the streams that were created
\* and whose disposal has not completed.
C23_RegistryIsAlive == registry = Alive

C23_Witness ==
  /\ stream[1] = "disposed" /\ stream[2] = "unregistering"
  /\ registry = {2}

\* the stream has yielded nothing since new_stream returned it
NeverPolled(id) == stream[id] = "live" /\ taken[id] = 0

\* C24: a stream that is never polled accepts every publish as long as its
\* queue holds fewer than buf_size + 2 items.
C24_HoldsBufferPlusTwo ==
  [][\A id \in StreamIds :
       (Sends /\ Registered(id) /\ NeverPolled(id) /\ Len(chan[id].buf) < Buffer + 2) =>
         chan'[id].buf = Append(chan[id].buf, LastItem')]_vars

\* the stream's queue is full: send_all's try_send fails for it
Stalled(id) == stream[id] = "live" /\ chan[id].open /\ chan[id].parked

\* C27: a send_all that finds a live stream's queue full leaves that stream
\* as it was: nothing is put into its queue (no error item either), its
\* channel stays open and its entry stays in the registry; a queue holds
\* nothing but published results; and the poll that takes an item from a full
\* queue frees the sender, so that the next send_all delivers to the stream
\* again.
C27_StallDropsOnly ==
  /\ [][\A id \in StreamIds :
          (Sends /\ Stalled(id)) =>
            /\ chan'[id] = chan[id]
            /\ stream'[id] = "live"
            /\ id \in registry']_vars
  /\ [](\A id \in StreamIds :
          \A i \in 1..Len(chan[id].buf) :
            /\ chan[id].buf[i].seq \in 1..Len(published)
            /\ chan[id].buf[i] = ItemAt(chan[id].buf[i].seq))
  /\ [][\A id \in StreamIds :
          (Stalled(id) /\ Yields(id)) => HasCapacity(chan'[id])]_vars
  /\ [][\A id \in StreamIds :
          (Sends /\ Registered(id) /\ stream[id] = "live" /\ ~chan[id].parked) =>
            chan'[id].buf = Append(chan[id].buf, LastItem')]_vars

C27_Witness ==
  /\ Len(published) = 3
  /\ stream[1] = "live" /\ taken[1] = 1
  /\ chan[1].buf = <<ItemAt(2), ItemAt(3)>> /\ chan[1].parked
(* ===================== properties of the X11 reads ===================== *)
\* the reading thread takes a step of a loop that started in position pc
LoopStepFrom(pc) ==
  /\ xpc = pc
  /\ xowner' = xowner /\ xnoise' = xnoise /\ xexpired' = xexpired
  /\ <<xpc, xqueue>>' # <<xpc, xqueue>>

\* the event at the head of the queue says that DATA has a new value
ChunkAnnounced ==
  LET ev == Head(xqueue) IN ev.e = "prop" /\ ev.prop = "DATA" /\ ev.state = "new"

\* C28: an INCR transfer starts by deleting the marker with nothing
\* collected; in the loop a notification that DATA has a new value makes the
\* reader read and delete the staged chunk: a non-empty chunk is appended
\* and the loop goes on, the zero-length chunk ends the read with what was
\* collected; any other event changes neither the bytes nor the property;
\* the loop is left otherwise only by the timeout, as a read error; a read
\* that succeeds returns the owner's chunks, all of them, in their order
C28_IncrTransfer ==
  /\ [][(xpc = "peek" /\ xpc' = "incr") =>
          /\ xprop["DATA"] = IncrMarker
          /\ xprop'["DATA"] = NoProp
          /\ xbuf' = <<>>]_vars
  /\ [][(LoopStepFrom("incr") /\ ~xexpired) =>
          IF ChunkAnnounced
          THEN /\ xprop'["DATA"] = NoProp
               /\ IF Value(xprop["DATA"]) = <<>>
                  THEN xpc' = "done" /\ xresult' = "Ok" /\ xbuf' = xbuf
                  ELSE xpc' = "incr" /\ xbuf' = xbuf \o Value(xprop["DATA"])
          ELSE xpc' = "incr" /\ xbuf' = xbuf /\ xprop' = xprop]_vars
  /\ [][(LoopStepFrom("incr") /\ xexpired) =>
          xpc' = "done" /\ xresult' = "ReadError"]_vars
  /\ [](xpc = "done" /\ xresult = "Ok" /\ xowner.mode = "incr" =>
          xbuf = xowner.data)

\* an INCR transfer of two chunks has completed, an unrelated event among
\* its notifications
C28_Witness ==
  /\ xpc = "done" /\ xresult = "Ok"
  /\ xowner.mode = "incr" /\ xowner.data = <<1, 2>>
  /\ xbuf = <<1, 2>>
  /\ xnoise = 1 /\ xcalls = 1

\* the positions in which the reading thread waits for events
Waiting == Waits \cup {"incr"}

\* C29: a read that has begun returns, whatever the owner does or omits; a
\* wait whose timeout has passed ends at the thread's next step as a read
\* error, with no new request sent and no event consumed; an event older
\* than the request does not end the wait for the owner's answer
C29_ReadsTerminate ==
  /\ (xpc \notin {"idle", "done"}) ~> (xpc = "done")
  /\ [][(xpc \in Waiting /\ xexpired /\ xpc' # xpc) =>
          /\ xpc' = "done" /\ xresult' = "ReadError"
          /\ xowner' = xowner /\ xqueue' = xqueue /\ xprop' = xprop]_vars
  /\ [][(xpc \in Waits /\ ~xexpired /\ xqueue # <<>> /\ Head(xqueue).old) =>
          xpc' = xpc]_vars

\* the second read on the connection was never answered and timed out
C29_Witness ==
  /\ xpc = "done" /\ xresult = "ReadError"
  /\ xexpired
  /\ xowner.req = "DATA"
  /\ xcalls = 2 /\ xqueue = <<>>

\* the first read on the connection returns, and not because a wait timed out
ReturnsUntimed ==
  /\ xcalls = 1
  /\ xpc # "done" /\ xpc' = "done"
  /\ ~(xpc \in Waiting /\ xexpired)

\* C30: when read_format_with_size_check returns (with the data, with
\* SizeTooLarge, with EmptyContent, or because the size probe failed), no
\* property is staged on the observer's window any more
C30_NoStagedPropertyLeft ==
  [][ReturnsUntimed => \A p \in Props : xprop'[p] = NoProp]_vars

(* =================== properties of the X11 catalog ===================== *)
\* the atoms a catalog lists
Listed(fs) == {fs[i] : i \in 1..Len(fs)}

\* C31: a catalog that has been built, and that the Gatekeeper and the
\* extractor were given, lists none of TARGETS, MULTIPLE, TIMESTAMP and
\* SAVE_TARGETS; it lists every other advertised atom whose name resolves,
\* and nothing that was not advertised
C31_NoBookkeepingFormats ==
  runs # <<>> =>
    /\ runs[Len(runs)].formats = formats
    /\ Listed(formats) \cap IgnoredFormats = {}
    /\ Listed(formats) = Listed(targets) \ (IgnoredFormats \cup {Nameless})

\* the owner advertised a format between two bookkeeping targets
C31_Witness ==
  /\ targets = <<"TARGETS", "TEXT", "SAVE_TARGETS">>
  /\ runs # <<>>
  /\ formats = <<"TEXT">>

\* two resolutions of the same content ended alike: the same skip, the same
\* error, or the same Body published
SameOutcome(a, b) == a.w = b.w /\ a.pub = b.pub

\* C32: the resolutions of one content, made with no change in between, all
\* end alike, whatever names the earlier ones left in the cache
C32_Idempotent ==
  \A i, j \in 1..Len(runs) : SameOutcome(runs[i], runs[j])

(* ================= properties of the observer's loop =================== *)
\* the observer thread has left observe
Stopped == thread \in {"exited", "broken"}

\* C33: the loop is left only at its head with the stop flag set, or after
\* the publish of a monitor failure; once the flag is set no iteration is
\* begun, a publish is the end of the iteration in progress, and the thread
\* terminates; whatever a read ends with (Ok, skip, read error), the loop
\* goes on
C33_StopsOnlyByFlag ==
  /\ [][(InLoop /\ ~InLoop') =>
          \/ thread = "top" /\ stop /\ thread' = "exited"
          \/ /\ thread = "sending" /\ sent = PublishErr("MonitorFailed")
             /\ thread' = "broken"]_vars
  /\ [][(stop /\ thread = "top") => thread' \in {"top", "exited"}]_vars
  /\ [][(stop /\ published' # published) =>
          thread = "sending" /\ thread' \in {"top", "broken"}]_vars
  /\ [][(thread = "sending" /\ sent # PublishErr("MonitorFailed")
         /\ thread' # thread) => thread' = "top"]_vars
  /\ stop ~> Stopped

\* the flag was set during an iteration that still has a result to publish
C33_Witness ==
  /\ stop
  /\ thread = "sending" /\ sent # <<>> /\ sent # PublishErr("MonitorFailed")
  /\ published # <<>>

(* ================= properties of the stream's disposal ================= *)
\* the stream's drop has closed the queue and not yet removed the entry
Disposing(id) == stream[id] \in {"closed", "drained", "unregistering"}

\* C34: the entry of a stream leaves the registry only when its queue is
\* closed and empty; a result published while a stream is between the close
\* and the unregister is accepted by that stream's queue
C34_DisposalOrder ==
  /\ [][\A id \in StreamIds : (id \in registry /\ id \notin registry') =>
          ~chan[id].open /\ chan[id].buf = <<>>]_vars
  /\ [][\A id \in StreamIds :
          (published' # published /\ id \in registry /\ Disposing(id)) =>
            chan'[id].buf = Append(chan[id].buf, LastItem')]_vars


(* ----------------- properties of the registry's mutex ------------------ *)
\* C35: no deadlock.  Whoever holds the mutex of the registry can release it
\* without waiting for a consumer or for the join, the mutex is always
\* released again, and every operation that was begun completes under every
\* interleaving: a send_all, the disposal of a stream, the disposal of the
\* listener
C35_NoDeadlock ==
  /\ [](lock # NoHolder => ENABLED MutexRelease)
  /\ (lock # NoHolder) ~> (lock = NoHolder)
  /\ (thread = "sending") ~> (thread # "sending")
  /\ \A id \in StreamIds : (stream[id] = "closed") ~> (stream[id] = "disposed")
  /\ (listener = "dropping") ~> (listener = "dropped")

\* one stream holds the mutex in unregister while the other stream waits for
\* it, the observer is about to call send_all and the listener waits in join
C35_Witness ==
  /\ lock # NoHolder
  /\ \E id \in StreamIds : stream[id] = "drained"
  /\ thread = "sending"
  /\ sent # <<>>
  /\ listener = "dropping"

(* -------------------- properties of the drain loop -------------------- *)
\* the turns the drain loop of a closed stream still has to make: one for
\* every queued message and the one that sees Ok(None)
DrainLeft(id) == IF stream[id] = "closed" THEN Len(chan[id].buf) + 1 ELSE 0

\* C36: the drain loop ends.  Once the queue is closed no step enqueues into
\* it, send_all included, every turn of the loop brings it nearer to its end,
\* and the loop is left after finitely many turns
C36_DrainTerminates ==
  /\ [][\A id \in StreamIds :
          stream[id] = "closed" => DrainLeft(id)' <= DrainLeft(id)]_vars
  /\ [][\A id \in StreamIds :
          StreamDrain(id) => DrainLeft(id)' < DrainLeft(id)]_vars
  /\ \A id \in StreamIds : (stream[id] = "closed") ~> (stream[id] # "closed")

\* send_all has run against a stream that is in its drain loop with a message
\* still queued
C36_Witness ==
  \E id \in StreamIds :
    /\ stream[id] = "closed"
    /\ chan[id].buf # <<>>
    /\ id \in registry
    /\ published # <<>>
    /\ chan[id].buf[Len(chan[id].buf)].seq < Len(published)

(* ------------------ properties of a cycle's publication ---------------- *)
\* the extractor's outcomes that end a cycle without a result
SkipOutcomes == {"SizeTooLarge", "EmptyContent", "UserSkipped"}

\* C37: a detected change leads to at most one send_all, so no queue takes
\* more than one item for it, and a cycle that ends as a skip (over the limit,
\* empty, vetoed) performs no send_all.
C37_OneSendPerChange ==
  /\ [](Len(published) <= cycles + Count(published, "MonitorFailed"))
  /\ [][published' # published =>
          /\ thread = "sending" /\ sent # <<>> /\ thread' \in {"top", "broken"}
          /\ Len(published') = Len(published) + 1]_vars
  /\ [][\A id \in StreamIds :
          Len(chan'[id].buf) > Len(chan[id].buf) =>
            /\ published' # published
            /\ chan'[id].buf = Append(chan[id].buf, LastItem')]_vars
  /\ [][(thread = "sending" /\ wrapper \in SkipOutcomes /\ thread' # thread) =>
          (published' = published /\ chan' = chan /\ thread' = "top")]_vars

\* two changes were detected, the first was published and reached the
\* subscriber, the second held an image over the limit and its cycle is over
C37_Witness ==
  /\ platform = "win"
  /\ thread = "top" /\ events = 0
  /\ changes = 2 /\ cycles = 2
  /\ board = ("PNG" :> Bytes(SizeLimit + Excess))
  /\ Len(published) = 1
  /\ stream[1] = "live"
  /\ chan[1].buf = <<ItemAt(1)>>

(* ------------------- properties of the file list ---------------------- *)
\* C38: a published FileList is never empty.
C38_FileListNotEmpty ==
  (Done /\ PublishedOk /\ sent[1].body.tag = "FileList") =>
    sent[1].body.files # <<>>

\* the file list is advertised and cannot be read, or holds no entry
FileListUseless ==
  /\ Contains(clip, "FILES")
  /\ (clip["FILES"].t = "unreadable" \/ clip["FILES"] = Lines(<<>>))
\* the extractor came to the image and read its bytes: no custom format
\* was taken before it, and the read of the PNG, or of the raw image where
\* no PNG is advertised, succeeded
ImageBytesRead ==
  /\ verdict = "allow"
  /\ fault = "none"
  /\ CASE platform = "linux" ->
            /\ FirstContained(clip, custom_formats) = <<>>
            /\ Contains(clip, "PNG")
            /\ ReadFormatWithSizeCheck(clip, incr, "PNG", max_size).r = "ok"
       [] platform = "win" ->
            /\ WinCustomFormats(clip, custom_formats, max_size, <<>>).w = "None"
            /\ LET png == WinExtractClipboardFormat(clip, "PNG", max_size) IN
               \/ png.r = "ok"
               \/ png.r = "absent" /\ WinExtractRawImage(clip, max_size).r = "ok"
       [] platform = "macos" ->
            /\ OSXCustomFormats(clip, custom_formats, max_size, <<>>).w = "None"
            /\ LET png == ExtractClipboardFormatMacos(clip, "PNG", max_size) IN
               \/ png.r = "ok"
               \/ png.r = "absent" /\ OSXExtractRawImage(clip, max_size).r = "ok"

\* C39: the path of an image is a best-effort hint.  Once the bytes of the
\* image were read, a file list that is unreadable or empty leaves the image
\* without a path and the image is published all the same.
C39_PathHintBestEffort ==
  (Done /\ FileListUseless /\ ImageBytesRead) =>
    /\ PublishedOk
    /\ sent[1].body.tag \in {"PngImage", "RawImage"}
    /\ sent[1].body.path = NoPath

(* --------------- properties of the observer's termination ------------- *)
\* the stream has been handed the Err(MonitorFailed) item
SawFailure(id) ==
  /\ taken[id] # 0
  /\ published[taken[id]] = "MonitorFailed"

\* C40: after the observer was ended by a failure of the monitor, a stream
\* that is polled learns of it: it is handed the Err(MonitorFailed) item or
\* the end of the stream, whether its queue was full when the error was
\* published or it was created after the failure.
C40_TerminationObserved ==
  \A id \in StreamIds :
    (thread = "broken" /\ stream[id] = "live") ~>
      (SawFailure(id) \/ stream[id] # "live")

====
